---- MODULE Spec2Model ----
(***************************************************************************)
(* Task / rewards API (src/api/Program.cs, the current snapshot, lines     *)
(* 468-1401) over its EF Core / SQLite database (src/api/AppDbContext.cs). *)
(*                                                                         *)
(* State: the database tables, the tokens CreateToken has signed, and one  *)
(* slot per client holding the request that client has in flight.          *)
(* A request handler is a chain of steps, one per awaited database call:   *)
(* a query reads the committed tables into the request's own DbContext     *)
(* (its snapshot), SaveChangesAsync commits the tracked changes in one     *)
(* database transaction.  Steps of different requests interleave freely.   *)
(***************************************************************************)
EXTENDS Integers, Sequences, FiniteSets, TLC

VARIABLES kids, tasks, nextTaskId, rewards, nextRewardId, redemptions,
          ledger, tokens, req, started,
          \* the web client (src/web/src): one browser tab
          auth, localStorage, defaultHeader, effects, kidSession, pathname, sent

db == <<kids, tasks, nextTaskId, rewards, nextRewardId, redemptions, ledger>>
\* The tab's React auth state, its localStorage item, the axios default
\* Authorization header, the passive effects not yet run, the enterKidMode
\* call in flight, the route, and the last request the tab sent.
client == <<auth, localStorage, defaultHeader, effects, kidSession, pathname, sent>>
server == <<kids, tasks, nextTaskId, rewards, nextRewardId, redemptions,
            ledger, tokens, req, started>>
vars == <<kids, tasks, nextTaskId, rewards, nextRewardId, redemptions,
          ledger, tokens, req, started,
          auth, localStorage, defaultHeader, effects, kidSession, pathname, sent>>

\* ------------------------------------------------------------ bounds
\* Requests issued in one behaviour.
MaxRequests == 2

\* ------------------------------------------------------- the universe
\* The request contexts of the server: two requests run at a time.
Slots == {1, 2}
Parents == {"parent1", "parent2"}
SeedKids == {"kid-1", "kid-2", "kid-3"}
\* Guid.NewGuid() of POST /kids: an id nobody knows before the insert.
NewKidIds == {"kid-guid"}
KidIds == SeedKids \cup NewKidIds

\* Request inputs.
PointsInputs == {-50, 50}
CostInputs == {-30, 30}
NoString == ""
KidArgs == KidIds \cup {NoString}

\* ------------------------------------------------------------ tokens
\* CreateToken: the claims of the signed JWT.  A claim that is null or
\* white space is left out (modelled as "").
CreateToken(subjectId, role, kidId, parentId) ==
  [sub |-> subjectId, role |-> role, kidId |-> kidId, parentId |-> parentId]

\* GetUserId: NameIdentifier, which CreateToken sets to the subject.
GetUserId(principal) == principal.sub

\* principal.FindFirstValue("kidId") ?? GetUserId(principal)
KidClaim(principal) ==
  IF principal.kidId # NoString THEN principal.kidId ELSE GetUserId(principal)

\* ---------------------------------------------------------- responses
Resp(status, msg) == [status |-> status, msg |-> msg]
Ok == Resp(200, "")
Created == Resp(201, "")
NoContent == Resp(204, "")
Unauthorized == Resp(401, "")
Forbidden == Resp(403, "")
NotFound(msg) == Resp(404, msg)
BadRequest(msg) == Resp(400, msg)
\* An unhandled exception (DbUpdateConcurrencyException, a lost connection).
ServerError == Resp(500, "")

\* The authorization policies of AddAuthorization.
\* Policies that let every authenticated principal in.
PolicyRolesAnyone(policy) == {"Kid", "Parent"}

PolicyRoles(policy) ==
  CASE policy = "ParentOnly" -> {"Parent"}
    [] policy = "KidOnly" -> {"Kid"}
    [] policy = "KidOrParent" -> {"Kid", "Parent"}
    [] OTHER -> {"Kid", "Parent"}

Allowed(principal, policy) == principal.role \in PolicyRoles(policy)

\* db.Kids.AnyAsync(k => k.Id == kidId && k.ParentId == parentId)
\* A query that finds the kid whoever its parent is: what the ParentId
\* condition of the ownership query rules out.
KidOwnedByAnyone(kidsTable, kidId, parentId) == kidId \in DOMAIN kidsTable

KidOwned(kidsTable, kidId, parentId) ==
  kidId \in DOMAIN kidsTable /\ kidsTable[kidId].parentId = parentId

\* ------------------------------------------------- the browser tab
\* AuthContext.tsx, the current snapshot (lines 311-492).  A token or a
\* header that may be null is <<>> when null and <<t>> when it is t; a string
\* field that is undefined is "".
emptyAuth ==
  [parentToken |-> <<>>, kidToken |-> <<>>, activeRole |-> NoString,
   uiMode |-> "Parent", selectedKidId |-> NoString]

\* The tab after it opened for the first time: AuthProvider mounted with
\* emptyAuth and its effects ran (the item holds the four keys of emptyAuth
\* that are not undefined), on the "/" route, no request sent yet.
InitClient ==
  /\ auth = emptyAuth
  /\ localStorage = << [k \in {"parentToken", "kidToken", "activeRole", "uiMode"}
                          |-> emptyAuth[k]] >>
  /\ defaultHeader = <<>>
  /\ effects = {}
  /\ kidSession = <<>>
  /\ pathname = <<>>
  /\ sent = <<>>

\* --------------------------------------------------------------- Init
\* The database after Migrate + seed: the seeded parents, kids, tasks and
\* rewards, no redemptions and an empty ledger; the unexpired tokens the
\* clients hold from earlier logins and kid sessions.
Init ==
  /\ kids = [k \in SeedKids |->
               [parentId |-> IF k = "kid-3" THEN "parent2" ELSE "parent1",
                displayName |-> "Kid", balance |-> 0]]
  /\ tasks = (1 :> [title |-> "Brush Teeth", points |-> 50,
                    assignedKidId |-> "kid-1", createdByParentId |-> "parent1",
                    isComplete |-> FALSE, completedAt |-> 0]
              @@ 2 :> [title |-> "Homework", points |-> 50,
                    assignedKidId |-> "kid-3", createdByParentId |-> "parent2",
                    isComplete |-> FALSE, completedAt |-> 0])
  /\ nextTaskId = 3
  /\ rewards = (1 :> [name |-> "Extra Screen Time", cost |-> 50])
  /\ nextRewardId = 2
  /\ redemptions = <<>>
  /\ ledger = <<>>
  /\ tokens = {CreateToken(p, "Parent", NoString, NoString) : p \in Parents}
              \cup {CreateToken("kid-1", "Kid", "kid-1", "parent1")}
  /\ req = [c \in Slots |-> [pc |-> "idle"]]
  /\ started = 0
  /\ InitClient

\* ------------------------------------------------------ request slots
\* A slot holds a request in flight, or the response it has just sent.  A new
\* request takes the first slot that runs none, and the responses sent
\* before it arrived are gone from the slots.
InFlight(c) == req[c].pc \notin {"idle", "done"}

Free(c) ==
  /\ ~InFlight(c)
  /\ \A b \in Slots : b < c => InFlight(b)
  /\ started < MaxRequests

Done(op, who, resp) == [pc |-> "done", op |-> op, resp |-> resp]

Begin(c, record) ==
  req' = [b \in Slots |->
            IF b = c THEN record ELSE IF InFlight(b) THEN req[b] ELSE [pc |-> "idle"]]

Finish(c, resp) ==
  req' = [req EXCEPT ![c] = Done(req[c].op, req[c].who, resp)]

\* ---------------------------------------- PUT /tasks/{id}/complete
\* DateTime.UtcNow is the number of requests received so far.  Results.Ok(task):
\* of the task in the body the model keeps the id and CompletedAt (0 when the
\* task is not complete).
OkTask(id, task) == Ok @@ [id |-> id, completedAt |-> task.completedAt]

\* A resolution that lets a kid name the kid it acts for: what line 1025,
\* which reads the kid id from the token alone, rules out.
EffectiveKidIdAsRequested(kidsTable, who, kidArg) ==
  IF who.role = "Kid"
    THEN IF KidClaim(who) = NoString
           THEN [ok |-> FALSE, resp |-> Unauthorized]
           ELSE [ok |-> TRUE, kid |-> IF kidArg # NoString THEN kidArg ELSE KidClaim(who)]
    ELSE IF GetUserId(who) = NoString
           THEN [ok |-> FALSE, resp |-> Unauthorized]
         ELSE IF kidArg = NoString
           THEN [ok |-> FALSE, resp |-> BadRequest("kidId is required for parent.")]
         ELSE IF ~KidOwned(kidsTable, kidArg, GetUserId(who))
           THEN [ok |-> FALSE, resp |-> BadRequest("Unknown kidId for this parent.")]
         ELSE [ok |-> TRUE, kid |-> kidArg]

\* Lines 1019-1047: the effective kid, the task lookup, the idempotent
\* return.  Ownership never changes, so the ownership query and the task
\* query are one step.
EffectiveKidId(kidsTable, who, kidArg) ==
  IF who.role = "Kid"
    THEN IF KidClaim(who) = NoString
           THEN [ok |-> FALSE, resp |-> Unauthorized]
           ELSE [ok |-> TRUE, kid |-> KidClaim(who)]
    ELSE IF GetUserId(who) = NoString
           THEN [ok |-> FALSE, resp |-> Unauthorized]
         ELSE IF kidArg = NoString
           THEN [ok |-> FALSE, resp |-> BadRequest("kidId is required for parent.")]
         ELSE IF ~KidOwned(kidsTable, kidArg, GetUserId(who))
           THEN [ok |-> FALSE, resp |-> BadRequest("Unknown kidId for this parent.")]
         ELSE [ok |-> TRUE, kid |-> kidArg]

\* A handler without the early return of line 1046: what the idempotent
\* return rules out.
CompleteFirstNoReturn(kidsTable, tasksTable, who, id, kidArg, now) ==
  LET eff == EffectiveKidId(kidsTable, who, kidArg)
      op == "completeTask"
  IN IF ~Allowed(who, "KidOrParent") THEN Done(op, who, Forbidden)
     ELSE IF ~eff.ok THEN Done(op, who, eff.resp)
     ELSE IF ~(id \in DOMAIN tasksTable /\ tasksTable[id].assignedKidId = eff.kid)
       THEN Done(op, who, NotFound(""))
     ELSE [pc |-> "loadKid", op |-> op, who |-> who, id |-> id,
           kid |-> eff.kid, task |-> tasksTable[id], completedAt |-> now]

\* The handler up to its third database read: the response it sends, or the
\* request as it goes on.
CompleteFirst(kidsTable, tasksTable, who, id, kidArg, now) ==
  LET eff == EffectiveKidId(kidsTable, who, kidArg)
      op == "completeTask"
  IN IF ~Allowed(who, "KidOrParent") THEN Done(op, who, Forbidden)
     ELSE IF ~eff.ok THEN Done(op, who, eff.resp)
     ELSE IF ~(id \in DOMAIN tasksTable /\ tasksTable[id].assignedKidId = eff.kid)
       THEN Done(op, who, NotFound(""))
     ELSE IF tasksTable[id].isComplete THEN Done(op, who, OkTask(id, tasksTable[id]))
     ELSE [pc |-> "loadKid", op |-> op, who |-> who, id |-> id,
           kid |-> eff.kid, task |-> tasksTable[id], completedAt |-> now]

CompleteStart(c, who, id, kidArg) ==
  /\ Free(c)
  /\ started' = started + 1
  /\ Begin(c, CompleteFirst(kids, tasks, who, id, kidArg, started + 1))
  /\ UNCHANGED <<db, tokens>>
  /\ UNCHANGED client

\* Line 1054: the kid row is read after the task row; the Earn row is built,
\* and stamped, as soon as it is there (lines 1059-1067).
CompleteLoadKid(c) ==
  /\ req[c].pc = "loadKid" /\ req[c].op = "completeTask"
  /\ IF req[c].kid \in DOMAIN kids
       THEN req' = [req EXCEPT ![c] =
              [req[c] EXCEPT !.pc = "save"]
                @@ [balance |-> kids[req[c].kid].balance, createdAt |-> started]]
       ELSE Finish(c, NotFound("Kid not found."))
  /\ UNCHANGED <<db, tokens, started>>
  /\ UNCHANGED client

\* Lines 1050-1070: one SaveChangesAsync, one database transaction: the
\* task's IsComplete column, the kid's PointsBalance column (the value
\* computed from the request's snapshot) and the Earn row.  An UPDATE that
\* finds no row makes SaveChanges throw and rolls the transaction back.
EarnRow(r) ==
  [kidId |-> r.kid, type |-> "Earn", delta |-> r.task.points,
   taskId |-> r.id, redemptionId |-> 0, note |-> <<"Completed task", r.task.title>>,
   createdAt |-> r.createdAt]

\* A save that loses the Earn row: what the single SaveChangesAsync rules out.
CompleteCommitNoEarn(r) ==
  /\ tasks' = [tasks EXCEPT ![r.id].isComplete = TRUE, ![r.id].completedAt = r.completedAt]
  /\ kids' = IF r.task.points = 0 THEN kids
             ELSE [kids EXCEPT ![r.kid].balance = r.balance + r.task.points]
  /\ ledger' = ledger

\* A save that credits every kid: what `![r.kid]` rules out.
CompleteCommitEveryKid(r) ==
  /\ tasks' = [tasks EXCEPT ![r.id].isComplete = TRUE, ![r.id].completedAt = r.completedAt]
  /\ kids' = [k \in DOMAIN kids |->
                [kids[k] EXCEPT !.balance = @ + r.task.points]]
  /\ ledger' = Append(ledger, EarnRow(r))

CompleteCommit(r) ==
  /\ tasks' = [tasks EXCEPT ![r.id].isComplete = TRUE, ![r.id].completedAt = r.completedAt]
  /\ kids' = IF r.task.points = 0 THEN kids
             ELSE [kids EXCEPT ![r.kid].balance = r.balance + r.task.points]
  /\ ledger' = Append(ledger, EarnRow(r))

CompleteSave(c) ==
  /\ req[c].pc = "save" /\ req[c].op = "completeTask"
  /\ IF req[c].id \in DOMAIN tasks
       THEN /\ CompleteCommit(req[c])
            /\ Finish(c, OkTask(req[c].id, tasks'[req[c].id]))
       ELSE /\ Finish(c, ServerError)
            /\ UNCHANGED <<tasks, kids, ledger>>
  /\ UNCHANGED <<nextTaskId, rewards, nextRewardId, redemptions, tokens, started>>
  /\ UNCHANGED client

\* ------------------------------------- POST /rewards/{rewardId}/redeem
\* Lines 1256-1260: the kid row is read first.
RedeemStart(c, who, rewardId) ==
  /\ Free(c)
  /\ started' = started + 1
  /\ LET op == "redeem"
         kidId == KidClaim(who)
     IN Begin(c,
          IF ~Allowed(who, "KidOnly") THEN Done(op, who, Forbidden)
          ELSE IF kidId = NoString THEN Done(op, who, Unauthorized)
          ELSE IF kidId \notin DOMAIN kids THEN Done(op, who, NotFound("Kid not found."))
          ELSE [pc |-> "loadReward", op |-> op, who |-> who, id |-> rewardId,
                kid |-> kidId, balance |-> kids[kidId].balance])
  /\ UNCHANGED <<db, tokens>>
  /\ UNCHANGED client

\* Lines 1262-1266: the reward row, then the balance check on the snapshot.
\* A check that only refuses a kid already in debt: what line 1266 rules out.
InsufficientInDebt(balance, cost) == balance < 0

Insufficient(balance, cost) == balance < cost

RedeemLoadReward(c) ==
  /\ req[c].pc = "loadReward" /\ req[c].op = "redeem"
  /\ IF req[c].id \notin DOMAIN rewards
       THEN Finish(c, NotFound("Reward not found."))
     ELSE IF Insufficient(req[c].balance, rewards[req[c].id].cost)
       THEN Finish(c, BadRequest("Not enough points."))
     ELSE req' = [req EXCEPT ![c] =
            [req[c] EXCEPT !.pc = "save1"] @@ [reward |-> rewards[req[c].id]]]
  /\ UNCHANGED <<db, tokens, started>>
  /\ UNCHANGED client

\* Lines 1269-1280: the first SaveChangesAsync commits the deducted balance
\* and the Redemption row; when it returns the Spend row is built and stamped.
RedeemCommit1(r) ==
  /\ kids' = IF r.reward.cost = 0 THEN kids
             ELSE [kids EXCEPT ![r.kid].balance = r.balance - r.reward.cost]
  /\ redemptions' = Append(redemptions, [kidId |-> r.kid, rewardId |-> r.id])

RedeemSave1(c) ==
  /\ req[c].pc = "save1" /\ req[c].op = "redeem"
  /\ RedeemCommit1(req[c])
  /\ req' = [req EXCEPT ![c] =
       [req[c] EXCEPT !.pc = "save2"]
         @@ [redemptionId |-> Len(redemptions) + 1, createdAt |-> started]]
  /\ UNCHANGED <<tasks, nextTaskId, rewards, nextRewardId, ledger, tokens, started>>
  /\ UNCHANGED client

\* Lines 1283-1293: the second SaveChangesAsync commits the Spend row.
\* A Spend row that does not point at its redemption.
SpendRowNoRedemption(r) ==
  [kidId |-> r.kid, type |-> "Spend", delta |-> -r.reward.cost,
   taskId |-> 0, redemptionId |-> 0,
   note |-> <<"Redeemed reward", r.reward.name>>, createdAt |-> r.createdAt]

SpendRow(r) ==
  [kidId |-> r.kid, type |-> "Spend", delta |-> -r.reward.cost,
   taskId |-> 0, redemptionId |-> r.redemptionId,
   note |-> <<"Redeemed reward", r.reward.name>>, createdAt |-> r.createdAt]

RedeemSave2(c) ==
  /\ req[c].pc = "save2" /\ req[c].op = "redeem"
  /\ ledger' = Append(ledger, SpendRow(req[c]))
  /\ Finish(c, Ok)
  /\ UNCHANGED <<kids, tasks, nextTaskId, rewards, nextRewardId, redemptions,
                 tokens, started>>
  /\ UNCHANGED client

\* ------------------------------------------------------ the reads
\* The GET handlers change nothing: each is the response it computes from
\* the tables.  OkBody is Results.Ok(value).
OkBody(body) == Ok @@ [body |-> body]

\* Lines 830-857: the caller's kids.
GetKids(kidsTable, who) ==
  IF ~Allowed(who, "ParentOnly") THEN Forbidden
  ELSE IF GetUserId(who) = NoString THEN Unauthorized
  ELSE LET mine == {k \in DOMAIN kidsTable : kidsTable[k].parentId = GetUserId(who)}
       IN OkBody([k \in mine |-> kidsTable[k]])

\* Lines 909-945: a kid's tasks; a parent's tasks, or those of one of its kids.
TasksOfKid(tasksTable, k) ==
  LET ids == {id \in DOMAIN tasksTable : tasksTable[id].assignedKidId = k}
  IN [id \in ids |-> tasksTable[id]]

TasksOfParent(tasksTable, p) ==
  LET ids == {id \in DOMAIN tasksTable : tasksTable[id].createdByParentId = p}
  IN [id \in ids |-> tasksTable[id]]

GetTasks(kidsTable, tasksTable, who, kidArg) ==
  IF who.role = "Kid"
    THEN IF KidClaim(who) = NoString THEN Unauthorized
         ELSE OkBody(TasksOfKid(tasksTable, KidClaim(who)))
  ELSE IF GetUserId(who) = NoString THEN Unauthorized
  ELSE IF kidArg # NoString
    THEN IF ~KidOwned(kidsTable, kidArg, GetUserId(who))
           THEN BadRequest("Unknown kidId for this parent.")
           ELSE OkBody(TasksOfKid(tasksTable, kidArg))
  ELSE OkBody(TasksOfParent(tasksTable, GetUserId(who)))

\* Lines 1098-1128: the balance of the effective kid.
GetPoints(kidsTable, who, kidArg) ==
  LET eff == EffectiveKidId(kidsTable, who, kidArg)
  IN IF ~eff.ok THEN eff.resp
     ELSE IF eff.kid \notin DOMAIN kidsTable THEN NotFound("Kid not found.")
     ELSE OkBody([kidId |-> eff.kid, points |-> kidsTable[eff.kid].balance])

\* Lines 1147-1160 and 1176-1189: the kid's rows, newest CreatedAtUtc first,
\* without their KidId.  Rows of equal CreatedAtUtc come in the order the
\* database picks, so a query has a set of possible results.
HistoryItem(rows, i) ==
  [id |-> i, type |-> rows[i].type, delta |-> rows[i].delta, note |-> rows[i].note,
   taskId |-> rows[i].taskId, redemptionId |-> rows[i].redemptionId,
   createdAt |-> rows[i].createdAt]

Histories(rows, kidId) ==
  LET mine == {i \in 1..Len(rows) : rows[i].kidId = kidId}
      n == Cardinality(mine)
      orders == {h \in [1..n -> mine] :
                   /\ \A a, b \in 1..n : a # b => h[a] # h[b]
                   /\ \A a, b \in 1..n :
                        a < b => rows[h[a]].createdAt >= rows[h[b]].createdAt}
  IN {[j \in 1..n |-> HistoryItem(rows, h[j])] : h \in orders}

\* Lines 1136-1164: a parent reads the history of one of its kids.
GetKidHistory(kidsTable, rows, who, kidId) ==
  IF ~Allowed(who, "ParentOnly") THEN {Forbidden}
  ELSE IF GetUserId(who) = NoString THEN {Unauthorized}
  ELSE IF ~KidOwned(kidsTable, kidId, GetUserId(who))
    THEN {BadRequest("Unknown kidId for this parent.")}
  ELSE {OkBody(h) : h \in Histories(rows, kidId)}

\* Lines 1167-1192: a kid reads its own history.
GetPointsHistory(rows, who) ==
  IF ~Allowed(who, "KidOnly") THEN {Forbidden}
  ELSE IF KidClaim(who) = NoString THEN {Unauthorized}
  ELSE {OkBody([kidId |-> KidClaim(who), history |-> h]) :
          h \in Histories(rows, KidClaim(who))}

\* ------------------------------------------------ optional inputs
\* A nullable request field: <<>> is null, <<v>> is the value v.
Has(x) == Len(x) = 1
Val(x) == x[1]
\* string.IsNullOrWhiteSpace and Trim on the strings the requests carry.
IsNullOrWhiteSpace(s) == s \in {"", " "}
Trim(s) == IF s = " " THEN "" ELSE IF s = " Parent1 " THEN "Parent1" ELSE s

\* The bodies of PUT /tasks/{id}: title, points, assignedKidId.
TaskEdits ==
  { <<t, p, k>> : t \in {<<>>}, p \in {<<>>, <<20>>, <<-50>>}, k \in {<<>>} }
  \cup { <<t, p, k>> : t \in {<<"Tidy Room">>}, p \in {<<>>},
                       k \in {<<>>, <<"kid-2">>, <<"kid-3">>} }
  \cup { <<t, p, k>> : t \in {<<" ">>}, p \in {<<20>>}, k \in {<<>>} }
  \cup { <<t, p, k>> : t \in {<<>>}, p \in {<<20>>}, k \in {<<" ">>, <<"kid-3">>} }
\* The bodies of PUT /rewards/{id}: name, cost.
RewardEdits ==
  { <<n, k>> : n \in {<<>>}, k \in {<<30>>, <<-30>>} }
  \cup { <<n, k>> : n \in {<<"Late Bedtime">>}, k \in {<<>>, <<80>>} }
  \cup { <<n, k>> : n \in {<<" ">>}, k \in {<<80>>} }
DisplayNames == {" ", "Sam"}

\* ------------------------------------------------------ POST /kids
\* Lines 859-879: the name is validated, then one insert under a fresh Guid.
CreateKidCheck(who, name) ==
  IF ~Allowed(who, "ParentOnly") THEN Forbidden
  ELSE IF GetUserId(who) = NoString THEN Unauthorized
  ELSE IF IsNullOrWhiteSpace(Trim(name)) THEN BadRequest("DisplayName is required.")
  ELSE Created

CreateKidStart(c, who, name) ==
  /\ Free(c)
  /\ started' = started + 1
  /\ NewKidIds \ DOMAIN kids # {}
  /\ LET op == "createKid"
         resp == CreateKidCheck(who, name)
     IN Begin(c,
          IF resp # Created THEN Done(op, who, resp)
          ELSE [pc |-> "save", op |-> op, who |-> who,
                kid |-> [parentId |-> GetUserId(who), displayName |-> Trim(name),
                         balance |-> 0]])
  /\ UNCHANGED <<db, tokens>>
  /\ UNCHANGED client

CreateKidSave(c) ==
  /\ req[c].pc = "save" /\ req[c].op = "createKid"
  /\ IF NewKidIds \ DOMAIN kids = {}
       THEN /\ Finish(c, ServerError)
            /\ UNCHANGED kids
       ELSE /\ \E id \in NewKidIds \ DOMAIN kids : kids' = kids @@ (id :> req[c].kid)
            /\ Finish(c, Created)
  /\ UNCHANGED <<tasks, nextTaskId, rewards, nextRewardId, redemptions, ledger,
                 tokens, started>>
  /\ UNCHANGED client

\* ------------------------------------------------ PUT /kids/{kidId}
\* Lines 881-898: the owned kid is read, then DisplayName is saved.
UpdateKidCheck(kidsTable, who, kidId, name) ==
  IF ~Allowed(who, "ParentOnly") THEN Forbidden
  ELSE IF GetUserId(who) = NoString THEN Unauthorized
  ELSE IF IsNullOrWhiteSpace(Trim(name)) THEN BadRequest("DisplayName is required.")
  ELSE IF ~KidOwned(kidsTable, kidId, GetUserId(who))
    THEN NotFound("Kid not found for this parent.")
  ELSE Ok

UpdateKidStart(c, who, kidId, name) ==
  /\ Free(c)
  /\ started' = started + 1
  /\ LET op == "updateKid"
         resp == UpdateKidCheck(kids, who, kidId, name)
     IN Begin(c,
          IF resp # Ok THEN Done(op, who, resp)
          ELSE [pc |-> "save", op |-> op, who |-> who, kid |-> kidId,
                name |-> Trim(name), old |-> kids[kidId].displayName])
  /\ UNCHANGED <<db, tokens>>
  /\ UNCHANGED client

UpdateKidSave(c) ==
  /\ req[c].pc = "save" /\ req[c].op = "updateKid"
  /\ kids' = IF req[c].name = req[c].old THEN kids
             ELSE [kids EXCEPT ![req[c].kid].displayName = req[c].name]
  /\ Finish(c, Ok)
  /\ UNCHANGED <<tasks, nextTaskId, rewards, nextRewardId, redemptions, ledger,
                 tokens, started>>
  /\ UNCHANGED client

\* ------------------------------------------------ POST /parent/login
\* Lines 780-806.  The Users table is written by the seed only: a username,
\* a role and the hash of the password per account.
Usernames == {" ", " Parent1 ", "parent2", "nobody"}
Passwords == {"", "ChangeMe123", "Secret2"}

\* string.ToLower on the user names of the model.
ToLower(s) == IF s = "Parent1" THEN "parent1" ELSE s

\* PasswordHasher: the hash is not the password, and it verifies the
\* password it was made from and no other.
HashPassword(password) == <<"pbkdf2", password>>
VerifyHashedPassword(hash, password) ==
  IF hash = HashPassword(password) THEN "Success" ELSE "Failed"

Users ==
  {[id |-> "parent1", username |-> "parent1", role |-> "Parent",
    passwordHash |-> HashPassword("ChangeMe123")],
   [id |-> "parent2", username |-> "parent2", role |-> "Parent",
    passwordHash |-> HashPassword("Secret2")]}

\* Results.Ok(new { token, role = "Parent" })
OkLogin(token) == Ok @@ [token |-> token, role |-> "Parent"]

\* The request and the response it got.
LoginDone(username, password, resp) ==
  Done("parentLogin", NoString, resp) @@ [username |-> username, password |-> password]

\* Lines 786-787.
LoginBlank(username, password) ==
  IsNullOrWhiteSpace(Trim(username)) \/ IsNullOrWhiteSpace(password)

\* Lines 790-793: the case-insensitive query, Parent role only.
FindParents(usersTable, username) ==
  {u \in usersTable : u.role = "Parent" /\ ToLower(u.username) = ToLower(username)}

\* A login that tells an unknown user name from a wrong password.
ParentLoginVerifyTellsUnknown(usersTable, username, password) ==
  LET found == FindParents(usersTable, username)
  IN IF found = {} THEN NotFound("Unknown user.")
     ELSE LET user == CHOOSE u \in found : TRUE
          IN IF VerifyHashedPassword(user.passwordHash, password) = "Failed"
               THEN Unauthorized
               ELSE OkLogin(CreateToken(user.id, "Parent", NoString, NoString))

\* Lines 795-803: no such user and a password that fails are both
\* Results.Unauthorized(); otherwise a Parent token for the user's id.
ParentLoginVerify(usersTable, username, password) ==
  LET found == FindParents(usersTable, username)
  IN IF found = {} THEN Unauthorized
     ELSE LET user == CHOOSE u \in found : TRUE
          IN IF VerifyHashedPassword(user.passwordHash, password) = "Failed"
               THEN Unauthorized
               ELSE OkLogin(CreateToken(user.id, "Parent", NoString, NoString))

\* Lines 782-787: the endpoint is anonymous; blank credentials are refused
\* before the query.
ParentLoginStart(c, username, password) ==
  /\ Free(c)
  /\ started' = started + 1
  /\ Begin(c,
       IF LoginBlank(username, password)
         THEN LoginDone(username, password, Unauthorized)
         ELSE [pc |-> "findUser", op |-> "parentLogin", who |-> NoString,
               username |-> username, password |-> password])
  /\ UNCHANGED <<db, tokens>>
  /\ UNCHANGED client

\* The query has answered: the response, and the token the client now holds.
ParentLoginFinish(c) ==
  /\ req[c].pc = "findUser" /\ req[c].op = "parentLogin"
  /\ LET resp == ParentLoginVerify(Users, Trim(req[c].username), req[c].password)
     IN /\ req' = [req EXCEPT ![c] = LoginDone(req[c].username, req[c].password, resp)]
        /\ tokens' = IF resp.status = 200 THEN tokens \cup {resp.token} ELSE tokens
  /\ UNCHANGED <<db, started>>
  /\ UNCHANGED client

\* ------------------------------------------------ POST /kid-session
\* Lines 808-823: the ownership query, then the Kid token is signed.
\* A kid session given for any kid that exists: what the ParentId condition
\* of the query at line 815 rules out.
KidSessionRespAnyKid(kidsTable, who, kidId) ==
  IF ~Allowed(who, "ParentOnly") THEN Forbidden
  ELSE IF GetUserId(who) = NoString THEN Unauthorized
  ELSE IF kidId \notin DOMAIN kidsTable
    THEN NotFound("Kid not found for this parent.")
  ELSE Ok

KidSessionResp(kidsTable, who, kidId) ==
  IF ~Allowed(who, "ParentOnly") THEN Forbidden
  ELSE IF GetUserId(who) = NoString THEN Unauthorized
  ELSE IF ~KidOwned(kidsTable, kidId, GetUserId(who))
    THEN NotFound("Kid not found for this parent.")
  ELSE Ok

KidSession(c, who, kidId) ==
  /\ Free(c)
  /\ started' = started + 1
  /\ LET resp == KidSessionResp(kids, who, kidId)
     IN /\ Begin(c, Done("kidSession", who, resp))
        /\ tokens' = IF resp = Ok
                       THEN tokens \cup {CreateToken(kidId, "Kid", kidId, GetUserId(who))}
                       ELSE tokens
  /\ UNCHANGED db
  /\ UNCHANGED client

\* ------------------------------------------------------ POST /tasks
\* Lines 947-971: the ownership query, then the insert.
CreateTaskResp(kidsTable, who, kidId) ==
  IF ~Allowed(who, "ParentOnly") THEN Forbidden
  ELSE IF GetUserId(who) = NoString THEN Unauthorized
  ELSE IF ~KidOwned(kidsTable, kidId, GetUserId(who))
    THEN BadRequest("Unknown kidId for this parent.")
  ELSE Created

NewTask(who, title, points, kidId) ==
  [title |-> title, points |-> points, assignedKidId |-> kidId,
   createdByParentId |-> GetUserId(who), isComplete |-> FALSE, completedAt |-> 0]

CreateTaskStart(c, who, title, points, kidId) ==
  /\ Free(c)
  /\ started' = started + 1
  /\ LET op == "createTask"
         resp == CreateTaskResp(kids, who, kidId)
     IN Begin(c,
          IF resp # Created THEN Done(op, who, resp)
          ELSE [pc |-> "save", op |-> op, who |-> who,
                task |-> NewTask(who, title, points, kidId)])
  /\ UNCHANGED <<db, tokens>>
  /\ UNCHANGED client

CreateTaskSave(c) ==
  /\ req[c].pc = "save" /\ req[c].op = "createTask"
  /\ tasks' = tasks @@ (nextTaskId :> req[c].task)
  /\ nextTaskId' = nextTaskId + 1
  /\ Finish(c, Created)
  /\ UNCHANGED <<kids, rewards, nextRewardId, redemptions, ledger, tokens, started>>
  /\ UNCHANGED client

\* ------------------------------------------------- PUT /tasks/{id}
\* Lines 976-1007: the task the caller created is read and the request's
\* fields are validated one after the other on the tracked entity; an
\* early return saves nothing.
\* A lookup by id alone: what the CreatedByParentId condition of line 979
\* rules out.
UpdateTaskCheckAnyCreator(kidsTable, tasksTable, who, id, title, points, kidId) ==
  IF ~Allowed(who, "ParentOnly") THEN Forbidden
  ELSE IF GetUserId(who) = NoString THEN Unauthorized
  ELSE IF id \notin DOMAIN tasksTable THEN NotFound("Task not found.")
  ELSE IF Has(title) /\ IsNullOrWhiteSpace(Trim(Val(title)))
    THEN BadRequest("Title cannot be empty.")
  ELSE IF Has(points) /\ Val(points) < 0
    THEN BadRequest("Points must be >= 0.")
  ELSE IF Has(kidId) /\ IsNullOrWhiteSpace(Trim(Val(kidId)))
    THEN BadRequest("AssignedKidId cannot be empty.")
  ELSE IF Has(kidId) /\ ~KidOwned(kidsTable, Trim(Val(kidId)), GetUserId(who))
    THEN BadRequest("Unknown kidId for this parent.")
  ELSE Ok

UpdateTaskCheck(kidsTable, tasksTable, who, id, title, points, kidId) ==
  IF ~Allowed(who, "ParentOnly") THEN Forbidden
  ELSE IF GetUserId(who) = NoString THEN Unauthorized
  ELSE IF ~(id \in DOMAIN tasksTable
            /\ tasksTable[id].createdByParentId = GetUserId(who))
    THEN NotFound("Task not found.")
  ELSE IF Has(title) /\ IsNullOrWhiteSpace(Trim(Val(title)))
    THEN BadRequest("Title cannot be empty.")
  ELSE IF Has(points) /\ Val(points) < 0
    THEN BadRequest("Points must be >= 0.")
  ELSE IF Has(kidId) /\ IsNullOrWhiteSpace(Trim(Val(kidId)))
    THEN BadRequest("AssignedKidId cannot be empty.")
  ELSE IF Has(kidId) /\ ~KidOwned(kidsTable, Trim(Val(kidId)), GetUserId(who))
    THEN BadRequest("Unknown kidId for this parent.")
  ELSE Ok

EditedTask(task, title, points, kidId) ==
  [task EXCEPT !.title = IF Has(title) THEN Trim(Val(title)) ELSE @,
               !.points = IF Has(points) THEN Val(points) ELSE @,
               !.assignedKidId = IF Has(kidId) THEN Trim(Val(kidId)) ELSE @]

\* An edit that saves the title as soon as it is valid, before the points and
\* the kid are looked at: what the single SaveChangesAsync at line 1009 rules
\* out.
UpdateTaskStartSavesEarly(c, who, id, title, points, kidId) ==
  /\ Free(c)
  /\ started' = started + 1
  /\ LET op == "updateTask"
         resp == UpdateTaskCheck(kids, tasks, who, id, title, points, kidId)
     IN /\ Begin(c,
             IF resp # Ok THEN Done(op, who, resp)
             ELSE [pc |-> "save", op |-> op, who |-> who, id |-> id,
                   old |-> tasks[id],
                   new |-> EditedTask(tasks[id], title, points, kidId)])
        /\ tasks' = IF resp.status = 400 /\ Has(title)
                       /\ ~IsNullOrWhiteSpace(Trim(Val(title)))
                      THEN [tasks EXCEPT ![id].title = Trim(Val(title))]
                      ELSE tasks
  /\ UNCHANGED <<kids, nextTaskId, rewards, nextRewardId, redemptions, ledger, tokens>>
  /\ UNCHANGED client

UpdateTaskStart(c, who, id, title, points, kidId) ==
  /\ Free(c)
  /\ started' = started + 1
  /\ LET op == "updateTask"
         resp == UpdateTaskCheck(kids, tasks, who, id, title, points, kidId)
     IN Begin(c,
          IF resp # Ok THEN Done(op, who, resp)
          ELSE [pc |-> "save", op |-> op, who |-> who, id |-> id,
                old |-> tasks[id],
                new |-> EditedTask(tasks[id], title, points, kidId)])
  /\ UNCHANGED <<db, tokens>>
  /\ UNCHANGED client

\* A save that writes the whole row as the request read it, IsComplete and
\* CompletedAt included: what the change tracking of SaveChanges rules out.
UpdateTaskCommitWholeRow(r) ==
  tasks' = [tasks EXCEPT ![r.id] = r.new]

\* Line 1009: SaveChanges writes the columns whose value differs from the
\* snapshot, and nothing when none does; an UPDATE that finds no row throws.
UpdateTaskCommit(r) ==
  tasks' = [tasks EXCEPT ![r.id] =
    [@ EXCEPT !.title = IF r.new.title # r.old.title THEN r.new.title ELSE @,
              !.points = IF r.new.points # r.old.points THEN r.new.points ELSE @,
              !.assignedKidId = IF r.new.assignedKidId # r.old.assignedKidId
                                  THEN r.new.assignedKidId ELSE @]]

UpdateTaskSave(c) ==
  /\ req[c].pc = "save" /\ req[c].op = "updateTask"
  /\ IF req[c].new = req[c].old
       THEN /\ Finish(c, Ok)
            /\ UNCHANGED tasks
     ELSE IF req[c].id \in DOMAIN tasks
       THEN /\ UpdateTaskCommit(req[c])
            /\ Finish(c, Ok)
       ELSE /\ Finish(c, ServerError)
            /\ UNCHANGED tasks
  /\ UNCHANGED <<kids, nextTaskId, rewards, nextRewardId, redemptions, ledger,
                 tokens, started>>
  /\ UNCHANGED client

\* ----------------------------------------------- DELETE /tasks/{id}
\* Lines 1075-1089, and OnDelete(DeleteBehavior.SetNull) of AppDbContext:
\* the ledger rows of the task stay, their TaskId becomes null.
DeleteTaskStart(c, who, id) ==
  /\ Free(c)
  /\ started' = started + 1
  /\ LET op == "deleteTask"
     IN Begin(c,
          IF ~Allowed(who, "ParentOnly") THEN Done(op, who, Forbidden)
          ELSE IF GetUserId(who) = NoString THEN Done(op, who, Unauthorized)
          ELSE IF ~(id \in DOMAIN tasks /\ tasks[id].createdByParentId = GetUserId(who))
            THEN Done(op, who, NotFound(""))
          ELSE [pc |-> "save", op |-> op, who |-> who, id |-> id])
  /\ UNCHANGED <<db, tokens>>
  /\ UNCHANGED client

Without(table, id) == [i \in DOMAIN table \ {id} |-> table[i]]

\* The foreign key as DeleteBehavior.Cascade would have it: the ledger rows
\* of a deleted task go with it.
SetNullTaskCascade(rows, id) ==
  SelectSeq(rows, LAMBDA row : row.taskId # id)

\* A deletion that nulls the task reference of every ledger row, not only of
\* the rows of the deleted task.
SetNullTaskAll(rows, id) ==
  [i \in DOMAIN rows |-> [rows[i] EXCEPT !.taskId = 0]]

SetNullTask(rows, id) ==
  [i \in DOMAIN rows |->
     IF rows[i].taskId = id THEN [rows[i] EXCEPT !.taskId = 0] ELSE rows[i]]

DeleteTaskSave(c) ==
  /\ req[c].pc = "save" /\ req[c].op = "deleteTask"
  /\ IF req[c].id \in DOMAIN tasks
       THEN /\ tasks' = Without(tasks, req[c].id)
            /\ ledger' = SetNullTask(ledger, req[c].id)
            /\ Finish(c, NoContent)
       ELSE /\ Finish(c, ServerError)
            /\ UNCHANGED <<tasks, ledger>>
  /\ UNCHANGED <<kids, nextTaskId, rewards, nextRewardId, redemptions, tokens, started>>
  /\ UNCHANGED client

\* ---------------------------------------------------- POST /rewards
\* Lines 1206-1214: no query and no validation, one insert.
CreateRewardStart(c, who, name, cost) ==
  /\ Free(c)
  /\ started' = started + 1
  /\ LET op == "createReward"
     IN Begin(c,
          IF ~Allowed(who, "ParentOnly") THEN Done(op, who, Forbidden)
          ELSE [pc |-> "save", op |-> op, who |-> who,
                reward |-> [name |-> name, cost |-> cost]])
  /\ UNCHANGED <<db, tokens>>
  /\ UNCHANGED client

CreateRewardSave(c) ==
  /\ req[c].pc = "save" /\ req[c].op = "createReward"
  /\ rewards' = rewards @@ (nextRewardId :> req[c].reward)
  /\ nextRewardId' = nextRewardId + 1
  /\ Finish(c, Created)
  /\ UNCHANGED <<kids, tasks, nextTaskId, redemptions, ledger, tokens, started>>
  /\ UNCHANGED client

\* ----------------------------------------------- PUT /rewards/{id}
\* Lines 1216-1237.
UpdateRewardCheck(rewardsTable, who, id, name, cost) ==
  IF ~Allowed(who, "ParentOnly") THEN Forbidden
  ELSE IF id \notin DOMAIN rewardsTable THEN NotFound("Reward not found.")
  ELSE IF Has(name) /\ IsNullOrWhiteSpace(Trim(Val(name)))
    THEN BadRequest("Name cannot be empty.")
  ELSE IF Has(cost) /\ Val(cost) < 0 THEN BadRequest("Cost must be >= 0.")
  ELSE Ok

EditedReward(reward, name, cost) ==
  [reward EXCEPT !.name = IF Has(name) THEN Trim(Val(name)) ELSE @,
                 !.cost = IF Has(cost) THEN Val(cost) ELSE @]

UpdateRewardStart(c, who, id, name, cost) ==
  /\ Free(c)
  /\ started' = started + 1
  /\ LET op == "updateReward"
         resp == UpdateRewardCheck(rewards, who, id, name, cost)
     IN Begin(c,
          IF resp # Ok THEN Done(op, who, resp)
          ELSE [pc |-> "save", op |-> op, who |-> who, id |-> id,
                old |-> rewards[id], new |-> EditedReward(rewards[id], name, cost)])
  /\ UNCHANGED <<db, tokens>>
  /\ UNCHANGED client

UpdateRewardCommit(r) ==
  rewards' = [rewards EXCEPT ![r.id] =
    [@ EXCEPT !.name = IF r.new.name # r.old.name THEN r.new.name ELSE @,
              !.cost = IF r.new.cost # r.old.cost THEN r.new.cost ELSE @]]

UpdateRewardSave(c) ==
  /\ req[c].pc = "save" /\ req[c].op = "updateReward"
  /\ IF req[c].new = req[c].old
       THEN /\ Finish(c, Ok)
            /\ UNCHANGED rewards
     ELSE IF req[c].id \in DOMAIN rewards
       THEN /\ UpdateRewardCommit(req[c])
            /\ Finish(c, Ok)
       ELSE /\ Finish(c, ServerError)
            /\ UNCHANGED rewards
  /\ UNCHANGED <<kids, tasks, nextTaskId, nextRewardId, redemptions, ledger,
                 tokens, started>>
  /\ UNCHANGED client

\* --------------------------------------------- DELETE /rewards/{id}
\* Lines 1239-1248.  Redemption.RewardId is a plain column (no navigation,
\* no foreign key): the redemptions of a deleted reward stay as they are.
DeleteRewardStart(c, who, id) ==
  /\ Free(c)
  /\ started' = started + 1
  /\ LET op == "deleteReward"
     IN Begin(c,
          IF ~Allowed(who, "ParentOnly") THEN Done(op, who, Forbidden)
          ELSE IF id \notin DOMAIN rewards THEN Done(op, who, NotFound(""))
          ELSE [pc |-> "save", op |-> op, who |-> who, id |-> id])
  /\ UNCHANGED <<db, tokens>>
  /\ UNCHANGED client

DeleteRewardSave(c) ==
  /\ req[c].pc = "save" /\ req[c].op = "deleteReward"
  /\ IF req[c].id \in DOMAIN rewards
       THEN /\ rewards' = Without(rewards, req[c].id)
            /\ Finish(c, NoContent)
       ELSE /\ Finish(c, ServerError)
            /\ UNCHANGED rewards
  /\ UNCHANGED <<kids, tasks, nextTaskId, nextRewardId, redemptions, ledger,
                 tokens, started>>
  /\ UNCHANGED client

\* A request dies between two awaited calls (the connection or the process
\* is lost, the database is busy): what its DbContext tracked and had not
\* saved is gone, what it had committed stays.
Fail(c) ==
  /\ InFlight(c)
  /\ Finish(c, ServerError)
  /\ UNCHANGED <<db, tokens, started>>
  /\ UNCHANGED client

Next ==
  \/ \E c \in Slots, who \in tokens, name \in DisplayNames : CreateKidStart(c, who, name)
  \/ \E c \in Slots : CreateKidSave(c)
  \/ \E c \in Slots, who \in tokens, kidId \in KidIds, name \in DisplayNames :
       UpdateKidStart(c, who, kidId, name)
  \/ \E c \in Slots : UpdateKidSave(c)
  \/ \E c \in Slots, who \in tokens, kidId \in KidIds : KidSession(c, who, kidId)
  \/ \E c \in Slots, who \in tokens, points \in PointsInputs, kidId \in KidIds :
       CreateTaskStart(c, who, "Make Bed", points, kidId)
  \/ \E c \in Slots : CreateTaskSave(c)
  \/ \E c \in Slots, who \in tokens, id \in 1..nextTaskId, e \in TaskEdits :
       UpdateTaskStart(c, who, id, e[1], e[2], e[3])
  \/ \E c \in Slots : UpdateTaskSave(c)
  \/ \E c \in Slots, who \in tokens, id \in 1..nextTaskId, kidArg \in KidArgs :
       CompleteStart(c, who, id, kidArg)
  \/ \E c \in Slots : CompleteLoadKid(c)
  \/ \E c \in Slots : CompleteSave(c)
  \/ \E c \in Slots, who \in tokens, id \in 1..nextTaskId : DeleteTaskStart(c, who, id)
  \/ \E c \in Slots : DeleteTaskSave(c)
  \/ \E c \in Slots, who \in tokens, cost \in CostInputs :
       CreateRewardStart(c, who, "Ice Cream", cost)
  \/ \E c \in Slots : CreateRewardSave(c)
  \/ \E c \in Slots, who \in tokens, id \in 1..nextRewardId, e \in RewardEdits :
       UpdateRewardStart(c, who, id, e[1], e[2])
  \/ \E c \in Slots : UpdateRewardSave(c)
  \/ \E c \in Slots, who \in tokens, id \in 1..nextRewardId : DeleteRewardStart(c, who, id)
  \/ \E c \in Slots : DeleteRewardSave(c)
  \/ \E c \in Slots, who \in tokens, id \in 1..nextRewardId : RedeemStart(c, who, id)
  \/ \E c \in Slots : RedeemLoadReward(c)
  \/ \E c \in Slots : RedeemSave1(c)
  \/ \E c \in Slots : RedeemSave2(c)
  \/ \E c \in Slots : Fail(c)

Spec == Init /\ [][Next]_vars

\* One request at a time: the second slot is never taken.
NextSeq == Next /\ \A c \in Slots : c > 1 => req'[c].pc = "idle"

SpecSeq == Init /\ [][NextSeq]_vars

\* The database of the race scenario: the seeded kids of parent1, kid-1
\* having completed both of its seeded tasks (50 + 50), and a reward that
\* costs 80; the clients hold parent1's token and kid-1's.
InitRace ==
  /\ kids = [k \in {"kid-1", "kid-2"} |->
               [parentId |-> "parent1", displayName |-> "Kid",
                balance |-> IF k = "kid-1" THEN 100 ELSE 0]]
  /\ tasks = (1 :> [title |-> "Brush Teeth", points |-> 50,
                    assignedKidId |-> "kid-1", createdByParentId |-> "parent1",
                    isComplete |-> TRUE, completedAt |-> 0]
              @@ 2 :> [title |-> "Go to School", points |-> 50,
                    assignedKidId |-> "kid-1", createdByParentId |-> "parent1",
                    isComplete |-> TRUE, completedAt |-> 0]
              @@ 3 :> [title |-> "Homework", points |-> 50,
                    assignedKidId |-> "kid-2", createdByParentId |-> "parent1",
                    isComplete |-> FALSE, completedAt |-> 0])
  /\ nextTaskId = 4
  /\ rewards = (1 :> [name |-> "Movie Night", cost |-> 80])
  /\ nextRewardId = 2
  /\ redemptions = <<>>
  /\ ledger = << [kidId |-> "kid-1", type |-> "Earn", delta |-> 50, taskId |-> 1,
                  redemptionId |-> 0, note |-> <<"Completed task", "Brush Teeth">>,
                  createdAt |-> 0],
                 [kidId |-> "kid-1", type |-> "Earn", delta |-> 50, taskId |-> 2,
                  redemptionId |-> 0, note |-> <<"Completed task", "Go to School">>,
                  createdAt |-> 0] >>
  /\ tokens = {CreateToken("parent1", "Parent", NoString, NoString),
               CreateToken("kid-1", "Kid", "kid-1", "parent1")}
  /\ req = [c \in Slots |-> [pc |-> "idle"]]
  /\ started = 0
  /\ InitClient

SpecRace == InitRace /\ [][Next]_vars

\* The server after Migrate + seed with no client logged in: requests to
\* the two endpoints that give out tokens.
InitLogin ==
  /\ kids = [k \in SeedKids |->
               [parentId |-> IF k = "kid-3" THEN "parent2" ELSE "parent1",
                displayName |-> "Kid", balance |-> 0]]
  /\ tasks = (1 :> [title |-> "Brush Teeth", points |-> 50,
                    assignedKidId |-> "kid-1", createdByParentId |-> "parent1",
                    isComplete |-> FALSE, completedAt |-> 0]
              @@ 2 :> [title |-> "Homework", points |-> 50,
                    assignedKidId |-> "kid-3", createdByParentId |-> "parent2",
                    isComplete |-> FALSE, completedAt |-> 0])
  /\ nextTaskId = 3
  /\ rewards = (1 :> [name |-> "Extra Screen Time", cost |-> 50])
  /\ nextRewardId = 2
  /\ redemptions = <<>>
  /\ ledger = <<>>
  /\ tokens = {}
  /\ req = [c \in Slots |-> [pc |-> "idle"]]
  /\ started = 0
  /\ InitClient

NextLogin ==
  \/ \E c \in Slots, username \in Usernames, password \in Passwords :
       ParentLoginStart(c, username, password)
  \/ \E c \in Slots : ParentLoginFinish(c)
  \/ \E c \in Slots, who \in tokens, kidId \in KidIds : KidSession(c, who, kidId)
  \/ \E c \in Slots : Fail(c)

SpecLogin == InitLogin /\ [][NextLogin]_vars

\* The scenario database: the seeded family of parent1 with no points yet,
\* the seeded task "Brush Teeth" worth 50 and the reward "Ice Cream" at a
\* cost of 30; one request at a time.
InitScenario ==
  /\ kids = [k \in {"kid-1", "kid-2"} |->
               [parentId |-> "parent1", displayName |-> "Kid", balance |-> 0]]
  /\ tasks = (1 :> [title |-> "Brush Teeth", points |-> 50,
                    assignedKidId |-> "kid-1", createdByParentId |-> "parent1",
                    isComplete |-> FALSE, completedAt |-> 0]
              @@ 2 :> [title |-> "Homework", points |-> 50,
                    assignedKidId |-> "kid-2", createdByParentId |-> "parent1",
                    isComplete |-> FALSE, completedAt |-> 0])
  /\ nextTaskId = 3
  /\ rewards = (1 :> [name |-> "Ice Cream", cost |-> 30])
  /\ nextRewardId = 2
  /\ redemptions = <<>>
  /\ ledger = <<>>
  /\ tokens = {CreateToken("parent1", "Parent", NoString, NoString),
               CreateToken("kid-1", "Kid", "kid-1", "parent1")}
  /\ req = [c \in Slots |-> [pc |-> "idle"]]
  /\ started = 0
  /\ InitClient

SpecScenario == InitScenario /\ [][NextSeq]_vars

\* ================================================== the web client
\* JSON.stringify(auth): a key whose value is undefined is left out, a null
\* stays.  JSON.parse gives the keys back; a key that is missing reads as
\* undefined.
Stringify(a) ==
  LET keys == {"parentToken", "kidToken", "activeRole", "uiMode"}
                 \cup (IF a.selectedKidId = NoString THEN {} ELSE {"selectedKidId"})
  IN [k \in keys |-> a[k]]

Parsed(json, key, undefined) ==
  IF key \in DOMAIN json THEN json[key] ELSE undefined

\* loadAuth (AuthContext.tsx 318-367): the tokens as stored, uiMode kept
\* when valid, activeRole derived from the tokens alone, the kid token first.
loadAuth(item) ==
  IF item = <<>> THEN emptyAuth
  ELSE LET json == item[1]
           parentToken == Parsed(json, "parentToken", <<>>)
           kidToken == Parsed(json, "kidToken", <<>>)
           stored == Parsed(json, "uiMode", NoString)
       IN [parentToken |-> parentToken,
           kidToken |-> kidToken,
           activeRole |-> IF kidToken # <<>> THEN "Kid"
                          ELSE IF parentToken # <<>> THEN "Parent" ELSE NoString,
           uiMode |-> IF stored \in {"Parent", "Kid"} THEN stored
                      ELSE IF parentToken # <<>> THEN "Parent" ELSE "Kid",
           selectedKidId |-> Parsed(json, "selectedKidId", NoString)]

\* setApiRoleToken / setApiToken (api.ts 121-138): the default header for a
\* role; no role, or no token for it, deletes the header.
RoleToken(a, role) ==
  IF role = "Kid" THEN a.kidToken
  ELSE IF role = "Parent" THEN a.parentToken ELSE <<>>

\* The request interceptor (api.ts 78-113): the request starts with the
\* default header; the role is the stored activeRole, or the stored uiMode
\* when that is null; the stored token of that role, when there is one,
\* replaces the header.
Interceptor(item, header) ==
  IF item = <<>> THEN header
  ELSE LET json == item[1]
           activeRole == Parsed(json, "activeRole", NoString)
           role == IF activeRole # NoString THEN activeRole
                   ELSE Parsed(json, "uiMode", NoString)
           token == IF role = "Kid" THEN Parsed(json, "kidToken", <<>>)
                    ELSE Parsed(json, "parentToken", <<>>)
       IN IF token # <<>> THEN token ELSE header

\* The routes of App.tsx (431-494), a path being its segments: the role a
\* route requires, "" for the public ones.
ClientKids == {"kid-1"}
Paths ==
  {<<>>, <<"login">>, <<"kid">>,
   <<"parent", "select-kid">>, <<"parent", "kids">>, <<"parent", "todos">>,
   <<"kid", "kids">>, <<"kid", "todos">>}
    \cup {<<area, "kids", k>> : area \in {"parent", "kid"}, k \in ClientKids}

RouteRole(path) ==
  IF Len(path) < 2 THEN NoString
  ELSE IF path[1] = "parent" THEN "Parent" ELSE "Kid"

\* mapPathForRole (RequireRole.tsx 34-53): a path under the role's prefix
\* stays; the kids and todos pages are mirrored; null (<<>> here) otherwise.
NoPath == <<"null">>
mapPathForRole(path, targetRole) ==
  LET prefix == IF targetRole = "Parent" THEN "parent" ELSE "kid"
      other == IF targetRole = "Parent" THEN "kid" ELSE "parent"
  IN IF Len(path) >= 2 /\ path[1] = prefix THEN path
     ELSE IF Len(path) >= 2 /\ path[1] = other /\ path[2] \in {"kids", "todos"}
       THEN [path EXCEPT ![1] = prefix]
     ELSE NoPath

\* The home route of a role, the selected kid's page when a kid is selected.
HomeOf(a) ==
  LET area == IF a.activeRole = "Kid" THEN "kid" ELSE "parent"
  IN IF a.selectedKidId # NoString THEN <<area, "kids", a.selectedKidId>>
     ELSE <<area, "kids">>

\* RequireRole (RequireRole.tsx 55-143) for a route that requires the roles
\* `required`: the page, or the path it redirects to.
Render == [render |-> TRUE, to |-> NoPath]
RedirectTo(path) == [render |-> FALSE, to |-> path]

\* A guard that only asks for some token.
RequireRoleAnyToken(a, required, path) ==
  IF a.parentToken = <<>> /\ a.kidToken = <<>> THEN RedirectTo(<<"login">>)
  ELSE Render

RequireRole(a, required, path) ==
  IF a.parentToken = <<>> /\ a.kidToken = <<>> THEN RedirectTo(<<"login">>)
  ELSE IF a.activeRole = "Kid" /\ a.kidToken = <<>> THEN RedirectTo(<<"login">>)
  ELSE IF a.activeRole = "Parent" /\ a.parentToken = <<>> THEN RedirectTo(<<"login">>)
  ELSE IF required # {} /\ a.activeRole \notin required
    THEN LET mapped == IF a.activeRole # NoString
                         THEN mapPathForRole(path, a.activeRole) ELSE NoPath
         IN RedirectTo(IF mapped # NoPath THEN mapped ELSE HomeOf(a))
  ELSE Render

\* The element of the route at a path: the "/" route redirects by role, the
\* guarded routes go through RequireRole, /login is public, and any other
\* path (/kid) falls to the "*" route, which redirects to "/".
RootTarget(a) ==
  IF a.parentToken = <<>> /\ a.kidToken = <<>> THEN <<"login">>
  ELSE IF a.activeRole = "Kid" THEN HomeOf(a)
  ELSE IF a.selectedKidId # NoString THEN <<"parent", "kids", a.selectedKidId>>
  ELSE <<"parent", "select-kid">>

Route(a, path) ==
  IF path = <<>> THEN RedirectTo(RootTarget(a))
  ELSE IF path = <<"login">> THEN Render
  ELSE IF Len(path) < 2 THEN RedirectTo(<<>>)
  ELSE RequireRole(a, {RouteRole(path)}, path)

\* The page component that is mounted, "" when the route redirects.
Page(a, path) ==
  IF ~Route(a, path).render THEN NoString
  ELSE IF path = <<"login">> THEN "Login"
  ELSE IF Len(path) < 2 THEN NoString
  ELSE IF path[2] = "select-kid" THEN "SelectKid"
  ELSE IF path[2] = "kids" THEN "KidsRewardsPage"
  ELSE "TodosPage"

\* setAuth: React commits the next state; the persist effect ([auth]) and,
\* when a token or the role changed, the header effect are then to run.
SetAuth(next) ==
  /\ auth' = next
  /\ effects' = effects \cup {"persist"}
       \cup (IF <<next.activeRole, next.parentToken, next.kidToken>>
                  # <<auth.activeRole, auth.parentToken, auth.kidToken>>
               THEN {"header"} ELSE {})

\* The passive effects of AuthProvider (392-416), flushed together after the
\* commit: setItem(JSON.stringify(auth)), then the default header of the role.
RunEffects ==
  /\ effects # {}
  /\ localStorage' = IF "persist" \in effects THEN <<Stringify(auth)>> ELSE localStorage
  /\ defaultHeader' = IF "header" \in effects THEN RoleToken(auth, auth.activeRole)
                      ELSE defaultHeader
  /\ effects' = {}
  /\ UNCHANGED <<server, auth, kidSession, pathname, sent>>

\* What an api call sends, and the auth state it was issued in.
Sent(a, item, header) ==
  << [authorization |-> Interceptor(item, header),
      activeRole |-> a.activeRole,
      token |-> RoleToken(a, a.activeRole),
      both |-> a.parentToken # <<>> /\ a.kidToken # <<>>] >>

\* A page, or the continuation of an earlier call of a page, calls the api.
Request ==
  /\ sent' = Sent(auth, localStorage, defaultHeader)
  /\ UNCHANGED <<server, auth, localStorage, defaultHeader, effects, kidSession, pathname>>

\* Login.tsx 28-59: a login the server accepts stores the Parent token,
\* makes Parent the role and the mode and goes to the parent's page.
Login(username, password) ==
  /\ pathname = <<"login">>
  /\ ~LoginBlank(username, password)
  /\ LET resp == ParentLoginVerify(Users, Trim(username), password)
     IN /\ resp.status = 200
        /\ SetAuth([auth EXCEPT !.parentToken = <<resp.token>>,
                                !.activeRole = "Parent", !.uiMode = "Parent"])
  /\ pathname' = IF auth.selectedKidId # NoString
                   THEN <<"parent", "kids", auth.selectedKidId>>
                   ELSE <<"parent", "select-kid">>
  /\ UNCHANGED <<server, localStorage, defaultHeader, kidSession, sent>>

\* enterParentMode (425-431).
enterParentMode(a) ==
  [a EXCEPT !.uiMode = "Parent",
            !.activeRole = IF a.parentToken # <<>> THEN "Parent" ELSE @]

\* SelectKid.tsx 13-24: the page enters Parent mode when it mounts.
SelectKidMount ==
  /\ Page(auth, pathname) = "SelectKid"
  /\ enterParentMode(auth) # auth
  /\ SetAuth(enterParentMode(auth))
  /\ UNCHANGED <<server, localStorage, defaultHeader, kidSession, pathname, sent>>

\* SelectKid.tsx 26-37: "View as Parent".
setCurrentKid(kidId) ==
  /\ Page(auth, pathname) = "SelectKid"
  /\ SetAuth([auth EXCEPT !.selectedKidId = kidId, !.uiMode = "Parent",
                          !.activeRole = "Parent"])
  /\ pathname' = <<"parent", "kids", kidId>>
  /\ UNCHANGED <<server, localStorage, defaultHeader, kidSession, sent>>

\* KidsRewardsPage.tsx 64-85: with a parent token and no kid selected, the
\* first kid of the list is selected.
SelectFirstKid(kidId) ==
  /\ Page(auth, pathname) = "KidsRewardsPage"
  /\ auth.parentToken # <<>> /\ auth.selectedKidId = NoString
  /\ SetAuth([auth EXCEPT !.selectedKidId = kidId])
  /\ UNCHANGED <<server, localStorage, defaultHeader, kidSession, pathname, sent>>

\* KidsRewardsPage.tsx 348-363: the kid selector of the page, filled when a
\* parent token is held, selects a kid and goes to the kid's parent route.
KidSelectorChange(kidId) ==
  /\ Page(auth, pathname) = "KidsRewardsPage"
  /\ auth.parentToken # <<>>
  /\ SetAuth([auth EXCEPT !.selectedKidId = kidId])
  /\ pathname' = <<"parent", "kids", kidId>>
  /\ UNCHANGED <<server, localStorage, defaultHeader, kidSession, sent>>

\* KidsRewardsPage.tsx 87-92: the page, mounted on the parent and on the kid
\* routes alike, makes Parent the role whenever a parent token is held.
ForceParentMode ==
  /\ Page(auth, pathname) = "KidsRewardsPage"
  /\ auth.parentToken # <<>> /\ auth.activeRole # "Parent"
  /\ SetAuth([auth EXCEPT !.activeRole = "Parent"])
  /\ UNCHANGED <<server, localStorage, defaultHeader, kidSession, pathname, sent>>

\* enterKidMode (440-459), first half: with a parent token in the state,
\* POST /kid-session is sent.  Called by "Kid Mode" of the top bar (App.tsx
\* 216-241) for the selected kid and by "Enter Kid Mode" of SelectKid.
EnterKidModeStart(kidId, from) ==
  /\ kidSession = <<>>
  /\ auth.parentToken # <<>>
  /\ \/ from = "App" /\ auth.selectedKidId = kidId
     \/ from = "SelectKid" /\ Page(auth, pathname) = "SelectKid"
  /\ sent' = Sent(auth, localStorage, defaultHeader)
  /\ kidSession' = << [kidId |-> kidId, from |-> from, path |-> pathname,
                       authorization |-> Interceptor(localStorage, defaultHeader)] >>
  /\ UNCHANGED <<server, auth, localStorage, defaultHeader, effects, pathname>>

\* "Kid Mode" with no kid selected goes to the selection page.
SwitchToKidModeNoKid ==
  /\ auth.parentToken # <<>> /\ auth.selectedKidId = NoString
  /\ pathname' = <<"parent", "select-kid">>
  /\ pathname' # pathname
  /\ UNCHANGED <<server, auth, localStorage, defaultHeader, effects, kidSession, sent>>

\* The answer of POST /kid-session to the header the call carried.
KidSessionAnswer(call) ==
  IF call.authorization = <<>> THEN Unauthorized
  ELSE KidSessionResp(kids, call.authorization[1], call.kidId)

\* The path the caller of enterKidMode navigates to when it returns.
KidModeTarget(call) ==
  IF call.from = "SelectKid" THEN <<"kid">>
  ELSE LET mapped == mapPathForRole(call.path, "Kid")
       IN IF mapped = NoPath \/ mapped = <<"kid", "kids">>
            THEN <<"kid", "kids", call.kidId>> ELSE mapped

\* The state update of enterKidMode (449-458), and one that makes Kid the
\* role without storing the token.
enterKidModeUpdateNoToken(prev, token, kidId) ==
  [prev EXCEPT !.uiMode = "Kid", !.activeRole = "Kid", !.selectedKidId = kidId]

enterKidModeUpdate(prev, token, kidId) ==
  [prev EXCEPT !.uiMode = "Kid", !.activeRole = "Kid", !.kidToken = <<token>>,
               !.selectedKidId = kidId]

\* enterKidMode, second half: the answer has come.  Ok: the kid token is
\* stored over whatever the state is by now, Kid becomes role and mode, and
\* the caller navigates; otherwise the call throws and nothing changes.
EnterKidModeFinish ==
  /\ kidSession # <<>>
  /\ kidSession' = <<>>
  /\ LET call == kidSession[1]
     IN IF KidSessionAnswer(call) = Ok
          THEN /\ SetAuth(enterKidModeUpdate(auth,
                     CreateToken(call.kidId, "Kid", call.kidId,
                                 GetUserId(call.authorization[1])),
                     call.kidId))
               /\ pathname' = KidModeTarget(call)
          ELSE UNCHANGED <<auth, effects, pathname>>
  /\ UNCHANGED <<server, localStorage, defaultHeader, sent>>

\* switchToParentMode (App.tsx 170-203): the PIN prompt.
ParentPin == "1234"
Pins == {"1234", "0000"}
switchToParentMode(entered) ==
  /\ auth.parentToken # <<>>
  /\ IF entered = ParentPin
       THEN /\ SetAuth(enterParentMode(auth))
            /\ pathname' =
                 LET mapped == mapPathForRole(pathname, "Parent")
                 IN IF mapped # NoPath THEN mapped
                    ELSE IF auth.selectedKidId # NoString
                      THEN <<"parent", "kids", auth.selectedKidId>>
                    ELSE <<"parent", "select-kid">>
       ELSE UNCHANGED <<auth, effects, pathname>>
  /\ UNCHANGED <<server, localStorage, defaultHeader, kidSession, sent>>

\* logout (461-471) and clearAuth (App.tsx 250-253): the state is emptied,
\* the item removed, the header deleted, and the tab goes to /login.  A call
\* of enterKidMode in flight is not cancelled.
Logout ==
  /\ auth.parentToken # <<>> \/ auth.kidToken # <<>>
  /\ SetAuth(emptyAuth)
  /\ localStorage' = <<>>
  /\ defaultHeader' = <<>>
  /\ pathname' = <<"login">>
  /\ UNCHANGED <<server, kidSession, sent>>

\* The page is loaded again: the JavaScript state is gone, AuthProvider
\* starts from loadAuth() and sets the header at once (377-390), and its
\* effects run with the first paint.
Reload ==
  /\ auth' = loadAuth(localStorage)
  /\ defaultHeader' = RoleToken(auth', auth'.activeRole)
  /\ localStorage' = <<Stringify(auth')>>
  /\ effects' = {}
  /\ kidSession' = <<>>
  /\ UNCHANGED <<server, pathname, sent>>

\* A link, the address bar or the history takes the tab to a path.
Navigate(path) ==
  /\ pathname' = path
  /\ pathname' # pathname
  /\ UNCHANGED <<server, auth, localStorage, defaultHeader, effects, kidSession, sent>>

\* The element of the route is a <Navigate>: the tab follows it.
Redirect ==
  /\ ~Route(auth, pathname).render
  /\ pathname' = Route(auth, pathname).to
  /\ pathname' # pathname
  /\ UNCHANGED <<server, auth, localStorage, defaultHeader, effects, kidSession, sent>>

NextClient ==
  \/ \E username \in Usernames, password \in Passwords : Login(username, password)
  \/ SelectKidMount
  \/ \E kidId \in ClientKids : setCurrentKid(kidId)
  \/ \E kidId \in ClientKids : SelectFirstKid(kidId)
  \/ \E kidId \in ClientKids : KidSelectorChange(kidId)
  \/ ForceParentMode
  \/ \E kidId \in ClientKids, from \in {"App", "SelectKid"} : EnterKidModeStart(kidId, from)
  \/ SwitchToKidModeNoKid
  \/ EnterKidModeFinish
  \/ \E entered \in Pins : switchToParentMode(entered)
  \/ Logout
  \/ Reload
  \/ \E path \in Paths : Navigate(path)
  \/ Redirect
  \/ RunEffects
  \/ Request

\* The tab against the seeded server, whose tables it does not change here.
SpecClient == Init /\ [][NextClient]_vars

\* ============================================================ claims
Rows == 1..Len(ledger)

RECURSIVE SumDelta(_, _)
SumDelta(rows, kidId) ==
  IF rows = <<>> THEN 0
  ELSE (IF Head(rows).kidId = kidId THEN Head(rows).delta ELSE 0)
       + SumDelta(Tail(rows), kidId)

EarnRowsOf(id) == {i \in Rows : ledger[i].type = "Earn" /\ ledger[i].taskId = id}
SpendRowsOf(rid) ==
  {i \in Rows : ledger[i].type = "Spend" /\ ledger[i].redemptionId = rid}
DoneWith(c, op, resp) == req[c] = Done(op, NoString, resp)
InsufficientPoints == BadRequest("Not enough points.")

\* C1: in every committed state each kid's PointsBalance equals the sum of
\* the deltas of the kid's ledger rows.
C1_BalanceIsLedgerSum ==
  \A k \in DOMAIN kids : kids[k].balance = SumDelta(ledger, k)

\* C2: kid-1 has 100 points and sends two redeem requests for the reward
\* that costs 80: when both have been answered, exactly one was answered
\* 200 and the other "Not enough points.", the balance is 20 and there is
\* one Redemption and one Spend row.
C2_RaceOneRedeemWins ==
  (/\ \A c \in Slots : req[c].pc = "done" /\ req[c].op = "redeem"
                       /\ req[c].resp \in {Ok, InsufficientPoints}
   /\ rewards = (1 :> [name |-> "Movie Night", cost |-> 80]))
  => /\ \E c \in Slots : /\ DoneWith(c, "redeem", Ok)
                         /\ \A b \in Slots \ {c} : DoneWith(b, "redeem", InsufficientPoints)
     /\ kids["kid-1"].balance = 20
     /\ Len(redemptions) = 1
     /\ Cardinality({i \in Rows : ledger[i].type = "Spend"}) = 1

\* C3: at most one Earn row ever references a task, whatever the
\* interleaving of the completeTask requests for it.
C3_AtMostOneEarnPerTask ==
  \A id \in 1..nextTaskId : Cardinality(EarnRowsOf(id)) <= 1

\* C4: no kid's PointsBalance is ever negative.
C4_BalanceNeverNegative ==
  \A k \in DOMAIN kids : kids[k].balance >= 0

\* C5: tenant isolation.  (1) Every task is assigned to a kid of the parent
\* who created it.  (2) Whatever kid id a parent's token sends, GET /kids,
\* GET /tasks, GET /points and the kid history answer 200 only with kids,
\* tasks, balances and ledger rows of that parent's own kids, and a parent's
\* token is refused the kid's own history.  (3) A step of a request made
\* with a parent's token leaves every kid of another parent, every task of
\* such a kid and every ledger row of such a kid as it was, and adds none.
C5_TasksStayInFamily ==
  \A id \in DOMAIN tasks :
    KidOwned(kids, tasks[id].assignedKidId, tasks[id].createdByParentId)

C5_ReadsOwnOnly ==
  \A who \in tokens :
    who.role = "Parent" =>
      LET p == GetUserId(who)
          mineK == GetKids(kids, who)
      IN /\ mineK.status = 200
         /\ \A k \in DOMAIN mineK.body : mineK.body[k].parentId = p
         /\ GetPointsHistory(ledger, who) = {Forbidden}
         /\ \A kidArg \in KidArgs :
              LET t == GetTasks(kids, tasks, who, kidArg)
                  b == GetPoints(kids, who, kidArg)
                  foreign == kidArg \in DOMAIN kids /\ kids[kidArg].parentId # p
              IN /\ foreign => t.status # 200 /\ b.status # 200
                 /\ t.status = 200 =>
                      \A id \in DOMAIN t.body :
                        /\ t.body[id] = tasks[id]
                        /\ KidOwned(kids, tasks[id].assignedKidId, p)
                 /\ b.status = 200 =>
                      /\ KidOwned(kids, b.body.kidId, p)
                      /\ b.body.points = kids[b.body.kidId].balance
                 /\ \A h \in GetKidHistory(kids, ledger, who, kidArg) :
                      /\ foreign => h.status # 200
                      /\ h.status = 200 =>
                           \A j \in DOMAIN h.body :
                             KidOwned(kids, ledger[h.body[j].id].kidId, p)

RowsOfKid(rows, k) == LET Of(r) == r.kidId = k IN SelectSeq(rows, Of)

C5_WritesOwnOnly ==
  \A c \in Slots :
    (InFlight(c) /\ req'[c] # req[c] /\ req[c].who.role = "Parent")
      => LET p == GetUserId(req[c].who)
         IN /\ \A k \in DOMAIN kids' :
                 kids'[k].parentId # p =>
                   /\ k \in DOMAIN kids /\ kids'[k] = kids[k]
                   /\ TasksOfKid(tasks', k) = TasksOfKid(tasks, k)
                   /\ RowsOfKid(ledger', k) = RowsOfKid(ledger, k)
            /\ \A id \in DOMAIN tasks :
                 tasks[id].createdByParentId # p =>
                   id \in DOMAIN tasks' /\ tasks'[id] = tasks[id]
            /\ \A id \in DOMAIN tasks' \ DOMAIN tasks :
                 tasks'[id].createdByParentId = p

C5_TenantIsolation ==
  /\ []C5_TasksStayInFamily
  /\ []C5_ReadsOwnOnly
  /\ [][C5_WritesOwnOnly]_vars

\* C5 witness: all three kid ids exist, the request just answered came after
\* the third was created, was a parent's POST /tasks for a kid it does not
\* own, and parent2's kid and task are as they were.
C5_Witness ==
  /\ started = 2 /\ req[2].pc = "idle"
  /\ DOMAIN kids = KidIds
  /\ req[1] = Done("createTask", NoString, BadRequest("Unknown kidId for this parent."))
  /\ DOMAIN tasks = {1, 2} /\ tasks[2].assignedKidId = "kid-3"
  /\ kids["kid-3"].parentId = "parent2" /\ kids["kid-3"].balance = 0

\* C6: a parent's request that names a kid of another parent is answered
\* with the endpoint's unknown-kid response, and that response is the one
\* the same request gets when the kid, its tasks and its ledger rows are not
\* in the database at all, and the one a request naming an id that no kid
\* has gets: on kid-session, PUT /kids, POST /tasks, PUT /tasks, GET /tasks,
\* task completion, GET /points and the kid history.
UnknownKid ==
  {BadRequest("Unknown kidId for this parent."),
   NotFound("Kid not found for this parent.")}

KidsWithout(k) == [j \in DOMAIN kids \ {k} |-> kids[j]]
TasksWithout(k) ==
  LET ids == {id \in DOMAIN tasks : tasks[id].assignedKidId # k}
  IN [id \in ids |-> tasks[id]]
LedgerWithout(k) ==
  LET NotOf(r) == r.kidId # k IN SelectSeq(ledger, NotOf)

\* The responses of the endpoints to `who` naming kid k, over given tables.
KidResponses(kidsTable, tasksTable, rows, who, k) ==
  [kidSession |-> KidSessionResp(kidsTable, who, k),
   updateKid |-> UpdateKidCheck(kidsTable, who, k, "Sam"),
   createTask |-> CreateTaskResp(kidsTable, who, k),
   updateTask |-> [id \in 1..nextTaskId |->
                    UpdateTaskCheck(kidsTable, tasksTable, who, id, <<>>, <<20>>, <<k>>)],
   getTasks |-> GetTasks(kidsTable, tasksTable, who, k),
   completeTask |-> [id \in 1..nextTaskId |->
                      CompleteFirst(kidsTable, tasksTable, who, id, k, started + 1)],
   getPoints |-> GetPoints(kidsTable, who, k),
   history |-> GetKidHistory(kidsTable, rows, who, k)]

C6_ForeignKidIsUnknownKid ==
  \A who \in tokens, k \in DOMAIN kids :
    (who.role = "Parent" /\ kids[k].parentId # GetUserId(who))
      => /\ KidResponses(kids, tasks, ledger, who, k)
              = KidResponses(KidsWithout(k), TasksWithout(k), LedgerWithout(k), who, k)
         /\ \A n \in KidIds \ DOMAIN kids :
              KidResponses(kids, tasks, ledger, who, k)
                = KidResponses(kids, tasks, ledger, who, n)
         /\ KidSessionResp(kids, who, k) \in UnknownKid
         /\ UpdateKidCheck(kids, who, k, "Sam") \in UnknownKid
         /\ CreateTaskResp(kids, who, k) \in UnknownKid
         /\ GetTasks(kids, tasks, who, k) \in UnknownKid
         /\ GetPoints(kids, who, k) \in UnknownKid
         /\ GetKidHistory(kids, ledger, who, k) \subseteq UnknownKid
         /\ GetKidHistory(kids, ledger, who, k) # {}
         /\ \A id \in 1..nextTaskId :
              LET done == CompleteFirst(kids, tasks, who, id, k, started + 1)
                  edit == UpdateTaskCheck(kids, tasks, who, id, <<>>, <<20>>, <<k>>)
              IN /\ done.pc = "done" /\ done.resp \in UnknownKid
                 /\ edit \in UnknownKid \cup {NotFound("Task not found.")}
                 /\ (id \in DOMAIN tasks /\ tasks[id].createdByParentId = GetUserId(who))
                      => edit \in UnknownKid

\* C6 witness: parent1 has tasks and kids of its own, kid-3 is parent2's, the
\* new kid exists, and the request just answered, sent after that kid was
\* created, named a kid its caller does not own.
C6_Witness ==
  /\ started = 2 /\ req[2].pc = "idle"
  /\ DOMAIN kids = KidIds
  /\ req[1] \in {Done("kidSession", NoString, NotFound("Kid not found for this parent.")),
                  Done("completeTask", NoString, BadRequest("Unknown kidId for this parent."))}

\* C7: every Redemption row has exactly one Spend row that references it.
C7_RedemptionHasItsSpend ==
  \A rid \in 1..Len(redemptions) : Cardinality(SpendRowsOf(rid)) = 1

\* C8: completion is one commit.  In every state a task is complete exactly
\* when an Earn row references it; and a step changes a task's IsComplete, or
\* appends an Earn row, only as the save of a completeTask request that
\* does both and writes the kid's balance, all from what the request read:
\* delta = the points it read, balance = the balance it read + delta.
EarnAppended(id) ==
  /\ Len(ledger') = Len(ledger) + 1
  /\ ledger'[Len(ledger')].type = "Earn"
  /\ ledger'[Len(ledger')].taskId = id

SavedBy(c, id) ==
  /\ req[c].pc = "save" /\ req[c].op = "completeTask" /\ req[c].id = id
  /\ req'[c] = Done("completeTask", NoString, OkTask(id, tasks'[id]))
  /\ ledger' = Append(ledger, [kidId |-> req[c].kid, type |-> "Earn",
                                delta |-> req[c].task.points, taskId |-> id,
                                redemptionId |-> 0,
                                note |-> <<"Completed task", req[c].task.title>>,
                                createdAt |-> req[c].createdAt])
  /\ req[c].task.points # 0 => kids'[req[c].kid].balance = req[c].balance + req[c].task.points

C8_CompleteIffEarn ==
  \A id \in DOMAIN tasks : tasks[id].isComplete <=> EarnRowsOf(id) # {}

C8_CompletionOneCommit ==
  \A id \in 1..nextTaskId :
    LET flagged == /\ id \in DOMAIN tasks /\ id \in DOMAIN tasks'
                   /\ tasks[id].isComplete # tasks'[id].isComplete
    IN (flagged \/ EarnAppended(id))
         => /\ id \in DOMAIN tasks' /\ tasks'[id].isComplete
            /\ EarnAppended(id)
            /\ \E c \in Slots : SavedBy(c, id)

C8_CompletionAtomic == []C8_CompleteIffEarn /\ [][C8_CompletionOneCommit]_vars

\* C8 witness: a completeTask request has failed while another completed task 1,
\* which carries its one Earn row and the kid its points.
C8_Witness ==
  /\ 1 \in DOMAIN tasks /\ tasks[1].isComplete /\ Cardinality(EarnRowsOf(1)) = 1
  /\ \E c \in Slots : DoneWith(c, "completeTask", ServerError)
  /\ \E c \in Slots : DoneWith(c, "completeTask", OkTask(1, tasks[1]))
  /\ kids["kid-1"].balance = 50

\* C9: with one request at a time, completeTask on a task that is already
\* complete never goes on to award: every request that reaches the task is
\* answered 200 with the task as it is, the step that answers leaves the
\* database unchanged, and every complete task has exactly one Earn row.
C9_OneEarnPerCompleteTask ==
  \A id \in DOMAIN tasks : tasks[id].isComplete => Cardinality(EarnRowsOf(id)) = 1

C9_RepeatIsAnswered ==
  \A who \in tokens, id \in DOMAIN tasks, kidArg \in KidArgs :
    LET r == CompleteFirst(kids, tasks, who, id, kidArg, started + 1)
        eff == EffectiveKidId(kids, who, kidArg)
    IN tasks[id].isComplete
         => /\ r.pc = "done"
            /\ r.resp.status \in {200, 400, 401, 403, 404}
            /\ r.resp.status = 200 <=> (eff.ok /\ eff.kid = tasks[id].assignedKidId)
            /\ r.resp.status = 200 => r.resp = OkTask(id, tasks[id])

C9_AnsweredAtOnce ==
  \A c \in Slots :
    (~InFlight(c) /\ req'[c].pc = "done" /\ req'[c].op = "completeTask"
       /\ started' = started + 1)
      => UNCHANGED db

C9_Idempotent ==
  /\ []C9_OneEarnPerCompleteTask
  /\ []C9_RepeatIsAnswered
  /\ [][C9_AnsweredAtOnce]_vars

\* C9 witness: the first request completed task 1, the second asked again and
\* got the task back with the first request's CompletedAt; one Earn row, 50
\* points.
C9_Witness ==
  /\ started = 2
  /\ 1 \in DOMAIN tasks /\ tasks[1].isComplete /\ tasks[1].completedAt = 1
  /\ req[1] = Done("completeTask", NoString, OkTask(1, tasks[1]))
  /\ Len(ledger) = 1 /\ Cardinality(EarnRowsOf(1)) = 1
  /\ kids["kid-1"].balance = 50

\* C10: a redeem request that read a balance below the reward's cost is
\* answered 400 "Not enough points." (500 if it is aborted) by a step that
\* leaves every table unchanged, and no such request is ever past the check.
C10_NoWriteWhenInsufficient ==
  \A c \in Slots :
    (/\ req[c].pc = "loadReward" /\ req[c].op = "redeem"
     /\ req[c].id \in DOMAIN rewards
     /\ req[c].balance < rewards[req[c].id].cost
     /\ req'[c] # req[c])
      => /\ UNCHANGED db
         /\ req'[c].pc = "done"
         /\ req'[c].resp \in {InsufficientPoints, ServerError}

C10_PastTheCheck ==
  \A c \in Slots :
    (req[c].pc \in {"save1", "save2"} /\ req[c].op = "redeem")
      => req[c].balance >= req[c].reward.cost

C10_InsufficientLeavesState == []C10_PastTheCheck /\ [][C10_NoWriteWhenInsufficient]_vars

\* C10 witness: kid with balance 0 asked for the reward that costs 50 and was
\* refused; no redemption, no ledger row, balances untouched.
C10_Witness ==
  /\ \E c \in Slots : DoneWith(c, "redeem", InsufficientPoints)
  /\ 1 \in DOMAIN rewards /\ rewards[1].cost = 50
  /\ \A k \in DOMAIN kids : kids[k].balance = 0
  /\ redemptions = <<>> /\ ledger = <<>>

\* C11: on task completion and GET /points the effective kid of a Kid token
\* is the token's kidId whatever kidId the request carries; a Parent token
\* without kidId is answered 400 "kidId is required for parent.", with a
\* kidId it does not own 400 "Unknown kidId for this parent.", and with a
\* kid of its own acts on that kid.  Every completion in flight is for the
\* kid so resolved.
C11_Resolution ==
  \A who \in tokens, kidArg \in KidArgs :
    LET e == EffectiveKidId(kids, who, kidArg)
        owned == kidArg \in DOMAIN kids /\ kids[kidArg].parentId = GetUserId(who)
    IN /\ who.role = "Kid" =>
            /\ e = [ok |-> TRUE, kid |-> who.kidId]
            /\ GetPoints(kids, who, kidArg) = GetPoints(kids, who, NoString)
            /\ \A id \in 1..nextTaskId :
                 CompleteFirst(kids, tasks, who, id, kidArg, started + 1)
                   = CompleteFirst(kids, tasks, who, id, NoString, started + 1)
       /\ (who.role = "Parent" /\ kidArg = NoString) =>
            /\ e = [ok |-> FALSE, resp |-> BadRequest("kidId is required for parent.")]
            /\ GetPoints(kids, who, kidArg) = e.resp
       /\ (who.role = "Parent" /\ kidArg # NoString /\ ~owned) =>
            /\ e = [ok |-> FALSE, resp |-> BadRequest("Unknown kidId for this parent.")]
            /\ GetPoints(kids, who, kidArg) = e.resp
       /\ (who.role = "Parent" /\ owned) =>
            /\ e = [ok |-> TRUE, kid |-> kidArg]
            /\ GetPoints(kids, who, kidArg)
                 = OkBody([kidId |-> kidArg, points |-> kids[kidArg].balance])
       /\ ~e.ok => \A id \in 1..nextTaskId :
            CompleteFirst(kids, tasks, who, id, kidArg, started + 1)
              = Done("completeTask", who, e.resp)

C11_InFlightKid ==
  \A c \in Slots :
    (InFlight(c) /\ req[c].op = "completeTask")
      => /\ req[c].who.role = "Kid" => req[c].kid = req[c].who.kidId
         /\ req[c].who.role = "Parent" =>
              KidOwned(kids, req[c].kid, GetUserId(req[c].who))
         /\ req[c].task.assignedKidId = req[c].kid

C11_EffectiveKid == C11_Resolution /\ C11_InFlightKid

\* C11 witness: kid-1's completion is in flight for kid-1 while a parent's
\* completion without kidId has been answered 400.
C11_Witness ==
  \E c, b \in Slots :
    /\ req[c].pc = "loadKid" /\ req[c].op = "completeTask"
    /\ req[c].who.role = "Kid" /\ req[c].kid = "kid-1"
    /\ req[b] = Done("completeTask", NoString, BadRequest("kidId is required for parent."))

\* C12: a completeTask request changes the database only when the task it
\* names exists and is assigned to the request's effective kid.
C12_CommitNeedsAssignedKid ==
  \A c \in Slots :
    (InFlight(c) /\ req[c].op = "completeTask" /\ req'[c] # req[c] /\ db' # db)
      => /\ req[c].id \in DOMAIN tasks
         /\ tasks[req[c].id].assignedKidId = req[c].kid

C12_CompleteOnlyOwnTask == [][C12_CommitNeedsAssignedKid]_vars

\* C13: a task that is complete stays complete and keeps a completion
\* timestamp through every step of every operation, completeTask, edit and
\* reassignment included, for as long as the task exists; a task that was
\* deleted does not come back.
C13_StaysComplete ==
  \A id \in DOMAIN tasks :
    (tasks[id].isComplete /\ id \in DOMAIN tasks')
      => /\ tasks'[id].isComplete
         /\ tasks'[id].completedAt # 0

C13_NoRevival ==
  \A id \in 1..(nextTaskId - 1) : id \notin DOMAIN tasks => id \notin DOMAIN tasks'

C13_CompleteIsTerminal == [][C13_StaysComplete /\ C13_NoRevival]_vars

\* The first request completed task 1 and was answered; the second one, alone
\* in the system, retitled the complete task and reassigned it to kid-2.
C13_Witness ==
  /\ started = 2 /\ req[2].pc = "idle"
  /\ req[1] = Done("updateTask", NoString, Ok)
  /\ 1 \in DOMAIN tasks
  /\ tasks[1].isComplete /\ tasks[1].completedAt = 1
  /\ tasks[1].assignedKidId = "kid-2" /\ tasks[1].title = "Tidy Room"

\* C14: the ledger and the redemptions only grow.  Over every step, each
\* PointTransaction row already committed is still there, at its place, with
\* the same kidId, type, delta, note and timestamp, and its task or redemption
\* reference is either what it was or null; each Redemption row already
\* committed is still there unchanged.
C14_RowKept(old, new) ==
  /\ new.kidId = old.kidId /\ new.type = old.type
  /\ new.delta = old.delta /\ new.note = old.note
  /\ new.createdAt = old.createdAt
  /\ new.taskId \in {old.taskId, 0}
  /\ new.redemptionId \in {old.redemptionId, 0}

C14_LedgerGrows ==
  /\ Len(ledger') >= Len(ledger)
  /\ \A i \in Rows : C14_RowKept(ledger[i], ledger'[i])

C14_RedemptionsGrow ==
  /\ Len(redemptions') >= Len(redemptions)
  /\ \A i \in 1..Len(redemptions) : redemptions'[i] = redemptions[i]

C14_AppendOnly == [][C14_LedgerGrows /\ C14_RedemptionsGrow]_vars

\* An Earn row is written with the id of its task: one whose task reference
\* is null has outlived the deletion of that task.
C14_Witness ==
  \E i \in Rows :
    /\ ledger[i].type = "Earn" /\ ledger[i].taskId = 0
    /\ ledger[i].kidId = "kid-1" /\ ledger[i].delta = 50
    /\ 1 \notin DOMAIN tasks

\* C15: a step that deletes a task or a reward leaves every kid row as it
\* was, keeps every ledger row at its place with its kidId, type, delta, note
\* and redemption reference, nulls the task reference of exactly the rows of
\* the deleted task, and leaves the redemptions alone; so the sum of deltas of
\* each kid is what it was, and a balance that equalled it still does.
C15_TaskDeleted(id) == id \in DOMAIN tasks /\ id \notin DOMAIN tasks'

C15_RewardDeleted(id) == id \in DOMAIN rewards /\ id \notin DOMAIN rewards'

C15_LedgerKept(id) ==
  /\ Len(ledger') = Len(ledger)
  /\ \A i \in Rows :
       ledger'[i] = IF ledger[i].taskId = id THEN [ledger[i] EXCEPT !.taskId = 0]
                    ELSE ledger[i]
  /\ \A k \in DOMAIN kids : SumDelta(ledger', k) = SumDelta(ledger, k)

C15_BalancesKept ==
  /\ kids' = kids
  /\ redemptions' = redemptions
  /\ \A k \in DOMAIN kids :
       kids[k].balance = SumDelta(ledger, k) => kids'[k].balance = SumDelta(ledger', k)

C15_DeleteStep ==
  /\ \A id \in DOMAIN tasks :
       C15_TaskDeleted(id) => C15_LedgerKept(id) /\ C15_BalancesKept /\ rewards' = rewards
  /\ \A id \in DOMAIN rewards :
       C15_RewardDeleted(id) => ledger' = ledger /\ C15_BalancesKept /\ tasks' = tasks

C15_DeleteKeepsLedger == [][C15_DeleteStep]_vars

\* Task 1 of the racing family was deleted: its Earn row is there with a null
\* task reference, the Earn row of task 2 kept its reference, and kid-1 still
\* has the 100 points the two rows add up to.
C15_Witness ==
  /\ 1 \notin DOMAIN tasks /\ 2 \in DOMAIN tasks
  /\ Len(ledger) >= 2
  /\ ledger[1].taskId = 0 /\ ledger[1].delta = 50
  /\ ledger[2].taskId = 2
  /\ kids["kid-1"].balance = 100
  /\ SumDelta(ledger, "kid-1") = 100

\* C16: every Kid token there is names a kid whose parent is the token's
\* parentId claim; a token is only ever added by a kid-session request that a
\* Parent principal made for a kid it owns and that was answered Ok; a Kid
\* principal's kid-session request is refused, a Parent's request for a kid
\* it does not own is answered with the unknown-kid response, and neither
\* adds a token.
C16_TokensOwned ==
  \A t \in tokens :
    t.role = "Kid" => /\ GetUserId(t) = t.kidId
                      /\ KidOwned(kids, t.kidId, t.parentId)

C16_Answers ==
  \A who \in tokens, k \in KidIds :
    LET resp == KidSessionResp(kids, who, k)
    IN /\ who.role = "Kid" => resp = Forbidden
       /\ (who.role = "Parent" /\ ~KidOwned(kids, k, GetUserId(who)))
            => resp \in UnknownKid
       /\ resp = Ok <=> (who.role = "Parent" /\ KidOwned(kids, k, GetUserId(who)))

C16_MintStep ==
  /\ tokens \subseteq tokens'
  /\ \A t \in tokens' \ tokens :
       /\ t.role = "Kid"
       /\ \E who \in tokens :
            /\ who.role = "Parent" /\ GetUserId(who) = t.parentId
            /\ KidOwned(kids, t.kidId, GetUserId(who))
       /\ started' # started
       /\ \E c \in Slots : req'[c] = Done("kidSession", NoString, Ok)
  /\ \A c \in Slots :
       (started' # started /\ req'[c].pc = "done" /\ req'[c].op = "kidSession"
          /\ req'[c].resp # Ok) => tokens' = tokens

C16_KidTokenForOwnKid == [](C16_TokensOwned /\ C16_Answers) /\ [][C16_MintStep]_vars

\* parent1 got a session for its kid-2; another kid-session request, for a kid
\* of another family, was answered with the unknown-kid response, and there
\* is no token that pairs a kid with a parent that is not its own.
C16_Witness ==
  /\ CreateToken("kid-2", "Kid", "kid-2", "parent1") \in tokens
  /\ \E c \in Slots : req[c] = Done("kidSession", NoString, NotFound("Kid not found for this parent."))
  /\ CreateToken("kid-3", "Kid", "kid-3", "parent1") \notin tokens
  /\ CreateToken("kid-2", "Kid", "kid-2", "parent2") \notin tokens

\* C17: a login is answered Ok, with a Parent token for the account's id,
\* exactly when the trimmed user name is that of an account of role Parent,
\* whatever its letter case, and the password verifies against the account's
\* hash; every other login gets the one response Unauthorized, the same for a
\* user name nobody has as for a wrong password; and a Parent token is only
\* ever added by a login that was answered with it.
C17_Account(username, password) ==
  {u \in Users : /\ u.role = "Parent"
                 /\ ToLower(u.username) = ToLower(Trim(username))
                 /\ ~IsNullOrWhiteSpace(password)
                 /\ VerifyHashedPassword(u.passwordHash, password) # "Failed"}

C17_Expected(username, password) ==
  IF C17_Account(username, password) = {} THEN {Unauthorized}
  ELSE {OkLogin(CreateToken(u.id, "Parent", NoString, NoString)) :
          u \in C17_Account(username, password)}

C17_Answered ==
  \A c \in Slots :
    (req[c].pc = "done" /\ req[c].op = "parentLogin" /\ req[c].resp # ServerError)
      => /\ req[c].resp \in C17_Expected(req[c].username, req[c].password)
         /\ req[c].resp.status = 200 => req[c].resp.token \in tokens

C17_SameError ==
  \A c, b \in Slots :
    (/\ req[c].pc = "done" /\ req[c].op = "parentLogin"
     /\ req[b].pc = "done" /\ req[b].op = "parentLogin"
     /\ req[c].resp.status \notin {200, 500} /\ req[b].resp.status \notin {200, 500})
      => req[c].resp = req[b].resp

C17_IssueStep ==
  \A t \in tokens' \ tokens :
    t.role = "Parent" =>
      \E c \in Slots :
        /\ req[c].pc = "findUser" /\ req'[c].pc = "done"
        /\ req'[c].resp = OkLogin(t)
        /\ \E u \in C17_Account(req[c].username, req[c].password) : u.id = GetUserId(t)

C17_LoginOneError == [](C17_Answered /\ C17_SameError) /\ [][C17_IssueStep]_vars

\* Two logins were answered: one for a user name no account has, one for
\* parent2 with the password of parent1.  Both got the same response and no
\* token was given out.
C17_Witness ==
  /\ req[1] = LoginDone("nobody", "ChangeMe123", Unauthorized)
  /\ req[2] = LoginDone("parent2", "ChangeMe123", Unauthorized)
  /\ tokens = {}

\* C18: a request of a principal whose role its endpoint's policy does not
\* name is answered Forbidden in its first step, with the database and the
\* tokens left as they were: a Parent's redeem, and a Kid's kid-session,
\* task creation, edit and deletion, kid creation and renaming, reward
\* creation, edit and deletion; the reads of a wrong role are answered
\* Forbidden; every request past its first step was made by a principal of an
\* allowed role, and a Redemption is only ever written by a Kid's redeem.
C18_Policy(op) ==
  CASE op = "redeem" -> "KidOnly"
    [] op = "completeTask" -> "KidOrParent"
    [] OTHER -> "ParentOnly"

C18_Rejected(c, op) ==
  /\ req'[c] = Done(op, NoString, Forbidden)
  /\ db' = db /\ tokens' = tokens

C18_ParentRejected ==
  \A c \in Slots, who \in tokens :
    who.role = "Parent" =>
      \A id \in 1..nextRewardId : RedeemStart(c, who, id) => C18_Rejected(c, "redeem")

C18_KidRejected ==
  \A c \in Slots, who \in tokens :
    who.role = "Kid" =>
      /\ \A k \in KidIds : KidSession(c, who, k) => C18_Rejected(c, "kidSession")
      /\ \A name \in DisplayNames :
           CreateKidStart(c, who, name) => C18_Rejected(c, "createKid")
      /\ \A k \in KidIds, name \in DisplayNames :
           UpdateKidStart(c, who, k, name) => C18_Rejected(c, "updateKid")
      /\ \A points \in PointsInputs, k \in KidIds :
           CreateTaskStart(c, who, "Make Bed", points, k) => C18_Rejected(c, "createTask")
      /\ \A id \in 1..nextTaskId, e \in TaskEdits :
           UpdateTaskStart(c, who, id, e[1], e[2], e[3]) => C18_Rejected(c, "updateTask")
      /\ \A id \in 1..nextTaskId :
           DeleteTaskStart(c, who, id) => C18_Rejected(c, "deleteTask")
      /\ \A cost \in CostInputs :
           CreateRewardStart(c, who, "Ice Cream", cost) => C18_Rejected(c, "createReward")
      /\ \A id \in 1..nextRewardId, e \in RewardEdits :
           UpdateRewardStart(c, who, id, e[1], e[2]) => C18_Rejected(c, "updateReward")
      /\ \A id \in 1..nextRewardId :
           DeleteRewardStart(c, who, id) => C18_Rejected(c, "deleteReward")

C18_ForbiddenAtOnce ==
  \A c \in Slots :
    (req'[c] # req[c] /\ req'[c].pc = "done" /\ req'[c].resp = Forbidden)
      => ~InFlight(c) /\ db' = db /\ tokens' = tokens

C18_RedemptionByKid ==
  Len(redemptions') > Len(redemptions) =>
    \E c \in Slots :
      /\ InFlight(c) /\ req[c].op = "redeem" /\ req[c].who.role = "Kid"
      /\ redemptions'[Len(redemptions')].kidId = req[c].who.kidId

C18_ReadsRefused ==
  \A who \in tokens :
    /\ who.role = "Kid" =>
         /\ GetKids(kids, who) = Forbidden
         /\ \A k \in KidIds : GetKidHistory(kids, ledger, who, k) = {Forbidden}
    /\ who.role = "Parent" => GetPointsHistory(ledger, who) = {Forbidden}

C18_InFlightAllowed ==
  \A c \in Slots :
    InFlight(c) => Allowed(req[c].who, C18_Policy(req[c].op))

C18_RolePolicy ==
  /\ [](C18_ReadsRefused /\ C18_InFlightAllowed)
  /\ [][C18_ParentRejected /\ C18_KidRejected /\ C18_ForbiddenAtOnce
          /\ C18_RedemptionByKid]_vars

\* Only a Parent's redeem is answered Forbidden: one was, as the first
\* request, and there is no redemption, no ledger row and no point spent.
C18_Witness ==
  /\ started = 1
  /\ req[1] = Done("redeem", NoString, Forbidden)
  /\ redemptions = <<>> /\ ledger = <<>>
  /\ \A k \in DOMAIN kids : kids[k].balance = 0

\* C19: in every history a kid's rows come newest commit first: of two rows
\* the one committed later (the higher row id) is listed before the other.
\* Rows of equal timestamp, which the query may list either way, are left out.
C19_HistoryInCommitOrder ==
  \A k \in DOMAIN kids :
    \A h \in Histories(ledger, k) :
      \A a, b \in 1..Len(h) :
        (a < b /\ h[a].createdAt # h[b].createdAt) => h[a].id > h[b].id

\* C20: the step in which a request is answered 400, 401, 403 or 404 leaves
\* the database and the tokens as they were, and such an answer is given in
\* the request's first step or in the read step that follows it, before the
\* request has saved anything: a request that has saved is answered 200, 201,
\* 204 or, when it dies, 500.
C20_Errors == {400, 401, 403, 404}

C20_Answered(c) ==
  /\ req'[c] # req[c] \/ started' # started
  /\ req'[c].pc = "done"

C20_ErrorStep ==
  \A c \in Slots :
    (C20_Answered(c) /\ req'[c].resp.status \in C20_Errors)
      => /\ db' = db /\ tokens' = tokens
         /\ InFlight(c) => req[c].pc \in {"loadKid", "loadReward"}

C20_ReadStepIsFirst ==
  \A c \in Slots :
    (req'[c] # req[c] /\ req'[c].pc \in {"loadKid", "loadReward"})
      => ~InFlight(c) /\ db' = db /\ tokens' = tokens

C20_ErrorsChangeNothing == [][C20_ErrorStep /\ C20_ReadStepIsFirst]_vars

\* The first request, an edit of a seeded task whose title or points were
\* valid and whose kid belongs to nobody or to another parent, was answered
\* BadRequest; the tasks are as seeded.
C20_Witness ==
  /\ started = 1
  /\ req[1] = Done("updateTask", NoString, BadRequest("Unknown kidId for this parent."))
  /\ DOMAIN tasks = {1, 2}
  /\ tasks[1].title = "Brush Teeth" /\ tasks[1].points = 50
  /\ tasks[1].assignedKidId = "kid-1"
  /\ tasks[2].title = "Homework" /\ tasks[2].points = 50
  /\ tasks[2].assignedKidId = "kid-3"

\* C21: in every reachable state every task has points >= 0 and every reward
\* has cost >= 0.
C21_NonNegativeCatalogue ==
  /\ \A id \in DOMAIN tasks : tasks[id].points >= 0
  /\ \A id \in DOMAIN rewards : rewards[id].cost >= 0

\* C22: from a balance of 0 and an empty ledger, when the first request
\* completed the 50-point task 1 the kid has 50 points and the ledger is one
\* Earn row of +50 for kid-1 that references task 1; when the second request
\* then redeemed the 30-point reward 1 the kid has 20 points, there is one
\* Redemption, of reward 1 by kid-1, and the ledger is that Earn row followed
\* by one Spend row of -30 that references the Redemption.
C22_Earned(row) ==
  /\ row.kidId = "kid-1" /\ row.type = "Earn" /\ row.delta = 50 /\ row.taskId = 1
  /\ row.redemptionId = 0

C22_AfterComplete ==
  (/\ started = 1
   /\ 1 \in DOMAIN tasks
   /\ req[1] = Done("completeTask", NoString, OkTask(1, tasks[1]))
   /\ tasks[1].completedAt = 1)
    => /\ tasks[1].isComplete
       /\ kids["kid-1"].balance = 50
       /\ Len(ledger) = 1 /\ C22_Earned(ledger[1])
       /\ redemptions = <<>>

C22_AfterRedeem ==
  (/\ started = 2
   /\ req[1] = Done("redeem", NoString, Ok)
   /\ 1 \in DOMAIN tasks /\ tasks[1].completedAt = 1)
    => /\ tasks[1].isComplete
       /\ kids["kid-1"].balance = 20
       /\ redemptions = <<[kidId |-> "kid-1", rewardId |-> 1]>>
       /\ Len(ledger) = 2 /\ C22_Earned(ledger[1])
       /\ ledger[2].kidId = "kid-1" /\ ledger[2].type = "Spend"
       /\ ledger[2].delta = -30 /\ ledger[2].redemptionId = 1
       /\ ledger[2].taskId = 0
       /\ kids["kid-2"].balance = 0

C22_Scenario == C22_AfterComplete /\ C22_AfterRedeem

\* The scenario has run to its end: the completion was the first request, the
\* redemption the second, and the kid holds 20 points.
C22_Witness ==
  /\ started = 2
  /\ req[1] = Done("redeem", NoString, Ok)
  /\ 1 \in DOMAIN tasks /\ tasks[1].completedAt = 1
  /\ kids["kid-1"].balance = 20
  /\ Len(ledger) = 2 /\ Len(redemptions) = 1

\* C23: a request of the tab issued while it holds both tokens, that is on
\* either side of a role switch, carries the token of the role that was
\* auth.activeRole when the request was issued.
C23_RequestCarriesActiveRoleToken ==
  (sent # <<>> /\ sent[1].both) => sent[1].authorization = sent[1].token

\* C24: in every reachable auth state and for every guarded route, RequireRole
\* renders the page only if a token is held, the token of the active role is
\* held and the active role is the role the route requires; with no token it
\* redirects to /login; with the active role's token held but a role the
\* route does not allow it redirects to the mirrored route of that role when
\* there is one and to the role's home route otherwise.
C24_Guard(a, path) ==
  LET required == {RouteRole(path)}
      guard == RequireRole(a, required, path)
      held == IF a.activeRole = "Kid" THEN a.kidToken
              ELSE IF a.activeRole = "Parent" THEN a.parentToken ELSE <<>>
      area == IF a.activeRole = "Kid" THEN "kid" ELSE "parent"
      mirrored == IF path[2] \in {"kids", "todos"} THEN [path EXCEPT ![1] = area]
                  ELSE NoPath
      home == IF a.selectedKidId # NoString THEN <<area, "kids", a.selectedKidId>>
              ELSE <<area, "kids">>
  IN /\ guard.render =>
          /\ a.parentToken # <<>> \/ a.kidToken # <<>>
          /\ held # <<>>
          /\ a.activeRole \in required
     /\ (a.parentToken = <<>> /\ a.kidToken = <<>>) => guard = RedirectTo(<<"login">>)
     /\ (held # <<>> /\ a.activeRole \notin required) =>
          guard = RedirectTo(IF mirrored # NoPath THEN mirrored ELSE home)

C24_RequireRole ==
  \A path \in {p \in Paths : Len(p) >= 2} : C24_Guard(auth, path)

\* The kid's page is rendered on a kid route while both tokens are held.
C24_Witness ==
  /\ Len(pathname) >= 2 /\ RouteRole(pathname) = "Kid"
  /\ Route(auth, pathname).render
  /\ auth.parentToken # <<>> /\ auth.kidToken # <<>>

\* C25: a step that takes the active role from Kid, persisted as such, back
\* to Parent is switchToParentMode with the correct PIN or a successful
\* parent login, and switchToParentMode with a wrong PIN leaves the auth
\* state unchanged.
C25_BackToParent ==
  (auth.activeRole = "Kid" /\ effects = {} /\ auth'.activeRole = "Parent") =>
     \/ switchToParentMode(ParentPin)
     \/ \E username \in Usernames, password \in Passwords : Login(username, password)

C25_WrongPin ==
  \A entered \in Pins \ {ParentPin} : switchToParentMode(entered) => auth' = auth

C25_KidModeLocked == [][C25_BackToParent /\ C25_WrongPin]_vars

\* C26: while the tab holds no credentials, neither in the auth state nor in
\* the stored item nor in the default header, as after logout, the only step
\* after which it holds one is a successful parent login.
C26_NoCredentials ==
  /\ auth.parentToken = <<>> /\ auth.kidToken = <<>>
  /\ loadAuth(localStorage).parentToken = <<>>
  /\ loadAuth(localStorage).kidToken = <<>>
  /\ defaultHeader = <<>>

C26_LoggedOutUntilLogin ==
  [][(C26_NoCredentials /\ ~C26_NoCredentials') =>
        \E username \in Usernames, password \in Passwords : Login(username, password)]_vars

\* C27: a commit of completeTask or redeem made for kid A leaves, for every
\* other kid B, the balance of B, the ledger rows of B and the redemptions
\* of B as they were, whatever other requests are in flight.
C27_RowsOf(rows, kidId) == SelectSeq(rows, LAMBDA row : row.kidId = kidId)

C27_Frame(kidId) ==
  \A other \in DOMAIN kids \ {kidId} :
     /\ other \in DOMAIN kids'
     /\ kids'[other].balance = kids[other].balance
     /\ C27_RowsOf(ledger', other) = C27_RowsOf(ledger, other)
     /\ C27_RowsOf(redemptions', other) = C27_RowsOf(redemptions, other)

C27_OtherKidsUntouched ==
  [][\A c \in Slots :
        (CompleteSave(c) \/ RedeemSave1(c) \/ RedeemSave2(c)) => C27_Frame(req[c].kid)]_vars

\* kid-1 redeemed the reward and task 3 was completed for kid-2 while the
\* two requests overlapped (both rows are stamped after both had arrived).
C27_Witness ==
  /\ kids["kid-1"].balance = 20 /\ kids["kid-2"].balance = 50
  /\ \E i, j \in DOMAIN ledger :
        /\ ledger[i].kidId = "kid-1" /\ ledger[i].type = "Spend"
        /\ ledger[j].kidId = "kid-2" /\ ledger[j].type = "Earn"
        /\ ledger[i].createdAt = 2 /\ ledger[j].createdAt = 2

\* C28: a commit of PUT /tasks/{id} on a task that is Complete, and a commit
\* of PUT /rewards/{id} on a reward that has been redeemed, leave every
\* balance and the whole ledger unchanged; and the tasks that were Complete
\* before any request arrived (tasks 1 and 2 of kid-1) never award points to
\* another kid, reassigned or not.
C28_Balances == [k \in DOMAIN kids |-> kids[k].balance]

C28_EditStep(c) ==
  \/ /\ UpdateTaskSave(c)
     /\ req[c].id \in DOMAIN tasks /\ tasks[req[c].id].isComplete
  \/ /\ UpdateRewardSave(c)
     /\ \E i \in DOMAIN redemptions : redemptions[i].rewardId = req[c].id

C28_EditKeepsPoints ==
  \A c \in Slots :
     C28_EditStep(c) => (C28_Balances' = C28_Balances /\ ledger' = ledger)

C28_NoAwardToNewKid ==
  /\ \A i \in DOMAIN ledger :
        ledger[i].taskId \in {1, 2} => ledger[i].kidId = "kid-1"
  /\ Len(SelectSeq(ledger, LAMBDA row : row.taskId \in {1, 2})) <= 2

C28_EditsAwardNothing == [][C28_EditKeepsPoints]_vars /\ []C28_NoAwardToNewKid

\* The Complete task 1 has been reassigned to kid-2 and its points edited or
\* not, a request to complete it for kid-2 was answered 200, and kid-2 has
\* no points and no ledger row.
C28_Witness ==
  /\ 1 \in DOMAIN tasks
  /\ tasks[1].isComplete /\ tasks[1].assignedKidId = "kid-2"
  /\ started = 2
  /\ req[1].pc = "done" /\ req[1].op = "completeTask" /\ req[1].resp.status = 200
  /\ kids["kid-2"].balance = 0
  /\ \A i \in DOMAIN ledger : ledger[i].kidId = "kid-1"

\* C29: in every reachable auth state of the tab, the active role Kid
\* implies a kid token, the active role Parent implies a parent token, and
\* the active role is null only when no token is held.
C29_RoleHasToken ==
  /\ auth.activeRole \in {"Kid", "Parent", NoString}
  /\ auth.activeRole = "Kid" => auth.kidToken # <<>>
  /\ auth.activeRole = "Parent" => auth.parentToken # <<>>
  /\ auth.activeRole = NoString => (auth.parentToken = <<>> /\ auth.kidToken = <<>>)

\* After the PIN switch the role is Parent while the kid token is kept.
C29_Witness ==
  /\ auth.activeRole = "Parent" /\ auth.uiMode = "Parent"
  /\ auth.parentToken # <<>> /\ auth.kidToken # <<>>

\* C30: a reload of the tab whose auth state has been persisted starts from
\* the same parentToken, kidToken, uiMode and activeRole as before.
C30_ReloadKeepsSession ==
  [][(Reload /\ effects = {}) =>
        /\ auth'.parentToken = auth.parentToken
        /\ auth'.kidToken = auth.kidToken
        /\ auth'.uiMode = auth.uiMode
        /\ auth'.activeRole = auth.activeRole]_vars
====
